---- MODULE Spec2Model ----
(***************************************************************************)
(* nf-subway: the process DAG store (nf_subway/graph.py, SubwayGraph) and  *)
(* its lane allocator (SubwayGraph.assign_lanes).                          *)
(*                                                                         *)
(* A store is a record [nodes, execution_order, lanes_assigned]; nodes is  *)
(* a function from the known names to ProcessNode records.  The store      *)
(* operations are operators from a store to a store; the layout pass is    *)
(* modelled both as one operator (assign_lanes) and, in the main           *)
(* specification, one loop iteration per step (the same loop body).        *)
(***************************************************************************)
EXTENDS Integers, Sequences, FiniteSets, TLC

\* ------------------------------------------------------------- bounds
\* Layout specification (SpecLayout): the number of distinct process names
\* and of distinct dependency edges of the store that is laid out.
MaxNodes == 4
MaxEdges == 3
\* Interleaved specifications (Spec, SpecReplay): the same two bounds for a
\* store whose calls interleave with layout passes.
MaxLiveNodes == 2
MaxLiveEdges == 3
\* Growing store laid out step by step (SpecPass): MaxLiveNodes names and
\* this number of edges.
MaxPassEdges == 2
\* Lines applied one after the other (SpecEvents): the number of lines.
MaxEvents == 3
\* Monitor with its two threads (SpecMonitor): the number of lines the input
\* stream yields, and the batch size of the update loop (100 in the source,
\* monitor.py:112, scaled down so that a stream can exceed it).
MaxLines == 3
BatchLimit == 2

\* Store that is drawn (SpecRender): the number of distinct process names and
\* of distinct dependency edges.
MaxDrawNodes == 3
MaxDrawEdges == 2

\* Node updates with all their arguments (SpecStore): the number of distinct
\* process names.
MaxStoreNodes == 2

\* Store laid out again and again as it grows (SpecRelayout): the number of
\* distinct process names and of distinct dependency edges.
MaxRelayNodes == 3
MaxRelayEdges == 2

\* Store whose calls name processes it has not seen (SpecCreate): the number
\* of distinct process names and of distinct dependency edges.
MaxCreateNodes == 2
MaxCreateEdges == 2

\* Acyclic store laid out step by step (SpecFanOut): the number of distinct
\* process names and of distinct dependency edges.
MaxFanNodes == 4
MaxFanEdges == 4

\* Live display that is updated again and again (SpecBlink): the number of
\* calls of SubwayLiveRenderer.update and of distinct process names.
MaxUpdates == 7
MaxBlinkNodes == 1

\* Store with many edges on few nodes, self edges and edges back in arrival
\* order among them (SpecDense): the number of distinct process names and of
\* distinct dependency edges.
MaxDenseNodes == 3
MaxDenseEdges == 5

\* Names are opaque keys for the store (never compared but for equality), so
\* the environment introduces them in this order: the k-th name it creates
\* is NameList[k].
NameList == <<"A", "B", "C", "D", "E", "F", "G", "H">>

\* ------------------------------------------------------------- values
\* colors.py, ProcessStatus
PENDING == "pending"
RUNNING == "running"
COMPLETED == "completed"
FAILED == "failed"
CACHED == "cached"
ProcessStatus == {PENDING, RUNNING, COMPLETED, FAILED, CACHED}

\* Optional[...] values: None is the empty sequence, a present value v is <<v>>.
None == <<>>

\* exec_positions.get(c, 999999)
MissingPosition == 999999

Range(s) == {s[k] : k \in 1..Len(s)}
Contains(s, x) == \E k \in 1..Len(s) : s[k] = x

\* dict helpers: d[k] = v, del d[k]
EmptyMap == [x \in {} |-> 0]
Put(d, k, v) == [x \in DOMAIN d \cup {k} |-> IF x = k THEN v ELSE d[x]]
Del(d, k) == [x \in DOMAIN d \ {k} |-> d[x]]
Values(d) == {d[x] : x \in DOMAIN d}

\* ------------------------------------------------------------- store
ProcessNode(name, status) ==
    [status |-> status, duration |-> None, annotation |-> None,
     children |-> <<>>, parents |-> <<>>, lane |-> 0]

\* SubwayGraph.__init__
SubwayGraph ==
    [nodes |-> EmptyMap, execution_order |-> <<>>, lanes_assigned |-> FALSE]

\* Variant of add_process: a known name is appended to the arrival order again.
add_process_reappend(g, name, status) ==
    IF name \notin DOMAIN g.nodes
    THEN [nodes |-> Put(g.nodes, name, ProcessNode(name, status)),
          execution_order |-> Append(g.execution_order, name),
          lanes_assigned |-> FALSE]
    ELSE [g EXCEPT !.execution_order = Append(@, name)]

\* Variant of add_process: a new name is put at the front of the arrival order.
add_process_prepend(g, name, status) ==
    IF name \notin DOMAIN g.nodes
    THEN [nodes |-> Put(g.nodes, name, ProcessNode(name, status)),
          execution_order |-> <<name>> \o g.execution_order,
          lanes_assigned |-> FALSE]
    ELSE g

\* Variant of add_process: a new node leaves the layout flag as it is.
add_process_unflagged(g, name, status) ==
    IF name \notin DOMAIN g.nodes
    THEN [nodes |-> Put(g.nodes, name, ProcessNode(name, status)),
          execution_order |-> Append(g.execution_order, name),
          lanes_assigned |-> g.lanes_assigned]
    ELSE g

\* SubwayGraph.add_process
add_process(g, name, status) ==
    IF name \notin DOMAIN g.nodes
    THEN [nodes |-> Put(g.nodes, name, ProcessNode(name, status)),
          execution_order |-> Append(g.execution_order, name),
          lanes_assigned |-> FALSE]
    ELSE g

\* Variant of update_process: every update marks the layout stale.
update_process_stale(g, name, status, duration, annotation) ==
    IF name \in DOMAIN g.nodes
    THEN [g EXCEPT !.nodes[name].status = status,
                   !.nodes[name].duration =
                       IF duration # None THEN duration ELSE @,
                   !.nodes[name].annotation =
                       IF annotation # None THEN annotation ELSE @,
                   !.lanes_assigned = FALSE]
    ELSE LET g1 == add_process(g, name, status)
         IN  IF annotation # None
             THEN [g1 EXCEPT !.nodes[name].annotation = annotation]
             ELSE g1

\* Variant of update_process: a duration or annotation that is not given is
\* erased.
update_process_clear(g, name, status, duration, annotation) ==
    IF name \in DOMAIN g.nodes
    THEN [g EXCEPT !.nodes[name].status = status,
                   !.nodes[name].duration = duration,
                   !.nodes[name].annotation = annotation]
    ELSE LET g1 == add_process(g, name, status)
         IN  IF annotation # None
             THEN [g1 EXCEPT !.nodes[name].annotation = annotation]
             ELSE g1

\* SubwayGraph.update_process
update_process(g, name, status, duration, annotation) ==
    IF name \in DOMAIN g.nodes
    THEN [g EXCEPT !.nodes[name].status = status,
                   !.nodes[name].duration =
                       IF duration # None THEN duration ELSE @,
                   !.nodes[name].annotation =
                       IF annotation # None THEN annotation ELSE @]
    ELSE LET g1 == add_process(g, name, status)
         IN  IF annotation # None
             THEN [g1 EXCEPT !.nodes[name].annotation = annotation]
             ELSE g1

\* Variant of add_dependency: the child is appended without the membership test.
add_dependency_unchecked(g, parent, child) ==
    LET g1 == IF parent \notin DOMAIN g.nodes
              THEN add_process(g, parent, PENDING) ELSE g
        g2 == IF child \notin DOMAIN g1.nodes
              THEN add_process(g1, child, PENDING) ELSE g1
        g3 == [g2 EXCEPT !.nodes[parent].children = Append(@, child)]
        g4 == IF ~Contains(g3.nodes[child].parents, parent)
              THEN [g3 EXCEPT !.nodes[child].parents = Append(@, parent)]
              ELSE g3
    IN  [g4 EXCEPT !.lanes_assigned = FALSE]

\* Variant of add_dependency: a parent that is linked again moves to the end
\* of the child's parents.
add_dependency_relink(g, parent, child) ==
    LET g1 == IF parent \notin DOMAIN g.nodes
              THEN add_process(g, parent, PENDING) ELSE g
        g2 == IF child \notin DOMAIN g1.nodes
              THEN add_process(g1, child, PENDING) ELSE g1
        g3 == IF ~Contains(g2.nodes[parent].children, child)
              THEN [g2 EXCEPT !.nodes[parent].children = Append(@, child)]
              ELSE g2
        others == SelectSeq(g3.nodes[child].parents, LAMBDA p : p # parent)
        g4 == [g3 EXCEPT !.nodes[child].parents = Append(others, parent)]
    IN  [g4 EXCEPT !.lanes_assigned = FALSE]

\* Variant of add_dependency: an unseen child is created before an unseen
\* parent.
add_dependency_childfirst(g, parent, child) ==
    LET g1 == IF child \notin DOMAIN g.nodes
              THEN add_process(g, child, PENDING) ELSE g
        g2 == IF parent \notin DOMAIN g1.nodes
              THEN add_process(g1, parent, PENDING) ELSE g1
        g3 == IF ~Contains(g2.nodes[parent].children, child)
              THEN [g2 EXCEPT !.nodes[parent].children = Append(@, child)]
              ELSE g2
        g4 == IF ~Contains(g3.nodes[child].parents, parent)
              THEN [g3 EXCEPT !.nodes[child].parents = Append(@, parent)]
              ELSE g3
    IN  [g4 EXCEPT !.lanes_assigned = FALSE]

\* SubwayGraph.add_dependency
add_dependency(g, parent, child) ==
    LET g1 == IF parent \notin DOMAIN g.nodes
              THEN add_process(g, parent, PENDING) ELSE g
        g2 == IF child \notin DOMAIN g1.nodes
              THEN add_process(g1, child, PENDING) ELSE g1
        g3 == IF ~Contains(g2.nodes[parent].children, child)
              THEN [g2 EXCEPT !.nodes[parent].children = Append(@, child)]
              ELSE g2
        g4 == IF ~Contains(g3.nodes[child].parents, parent)
              THEN [g3 EXCEPT !.nodes[child].parents = Append(@, parent)]
              ELSE g3
    IN  [g4 EXCEPT !.lanes_assigned = FALSE]

\* SubwayGraph.clear
clear(g) ==
    [nodes |-> EmptyMap, execution_order |-> <<>>, lanes_assigned |-> FALSE]

\* ------------------------------------------------------------- layout pass
\* exec_positions = {name: idx for idx, name in enumerate(execution_order)}
\* (0-based; a name that occurred twice would keep its last index)
exec_positions(order) ==
    [name \in Range(order) |->
        (CHOOSE k \in 1..Len(order) :
            order[k] = name /\ \A j \in (k+1)..Len(order) : order[j] # name) - 1]

\* exec_positions.get(c, 999999)
Position(order, c) ==
    IF c \in Range(order) THEN exec_positions(order)[c] ELSE MissingPosition

\* Variant of FirstFreeLane: the search ends one lane past the first free one.
FirstFreeLane_skip(used) ==
    1 + CHOOSE lane \in 0..Cardinality(used) :
            lane \notin used /\ \A k \in 0..(lane - 1) : k \in used

\* lane = 0; while lane in used: lane += 1
FirstFreeLane(used) ==
    CHOOSE lane \in 0..Cardinality(used) :
        lane \notin used /\ \A k \in 0..(lane - 1) : k \in used

\* [self.nodes[p].lane for p in node.parents if p in self.nodes]
RECURSIVE ParentLanes(_, _)
ParentLanes(nodes, parents) ==
    IF parents = <<>> THEN <<>>
    ELSE LET p == Head(parents)
             rest == ParentLanes(nodes, Tail(parents))
         IN  IF p \in DOMAIN nodes THEN <<nodes[p].lane>> \o rest ELSE rest

\* Variant of MinLane: the lane of the parent listed first.
MinLane_first(lanes) == lanes[1]

MinLane(lanes) == CHOOSE m \in Range(lanes) : \A l \in Range(lanes) : m <= l

\* Variant of IsLast: a lane is never found to be done.
IsLast_never(nodes, order, parent_name, process_name) == FALSE

\* Variant of IsLast: the node being processed counts as a remaining child.
IsLast_strict(nodes, order, parent_name, process_name) ==
    \A c \in Range(nodes[parent_name].children) :
        Position(order, c) < exec_positions(order)[process_name]

\* all(c == process_name or exec_positions.get(c, 999999) <
\*     exec_positions[process_name] for c in parent_node.children)
IsLast(nodes, order, parent_name, process_name) ==
    \A c \in Range(nodes[parent_name].children) :
        c = process_name \/ Position(order, c) < exec_positions(order)[process_name]

\* for p_lane in parent_lanes: free the other parent lanes if they are done.
\* The result is [active |-> the active lanes, freed |-> a lane was deleted].
RECURSIVE FreeParentLanes(_, _, _, _, _, _)
FreeParentLanes(nodes, order, process_name, lane, parent_lanes, acc) ==
    IF parent_lanes = <<>> THEN acc
    ELSE LET p_lane == Head(parent_lanes)
             active == acc.active
             done == /\ p_lane # lane
                     /\ p_lane \in DOMAIN active
                     /\ active[p_lane] \in DOMAIN nodes
                     /\ IsLast(nodes, order, active[p_lane], process_name)
             next == IF done
                     THEN [active |-> Del(active, p_lane), freed |-> TRUE]
                     ELSE acc
         IN  FreeParentLanes(nodes, order, process_name, lane,
                             Tail(parent_lanes), next)

\* Each branch of lines 133-185 gives [lane, active, reserved, freed]: the lane
\* of process_name, the active and reserved lanes after it, and whether
\* line 185 deleted an active lane.

\* Variant of ReservedLane: the reservation is used but not deleted.
ReservedLane_keep(active, reserved, process_name) ==
    [lane |-> reserved[process_name],
     active |-> Put(active, reserved[process_name], process_name),
     reserved |-> reserved,
     freed |-> FALSE]

\* Lines 133-136: the node has a pre-reserved lane from a parent split.
ReservedLane(active, reserved, process_name) ==
    [lane |-> reserved[process_name],
     active |-> Put(active, reserved[process_name], process_name),
     reserved |-> Del(reserved, process_name),
     freed |-> FALSE]

\* Lines 146-157: a root process uses lane 0 or the first available lane.
RootLane(active, reserved, process_name) ==
    LET lane == IF 0 \notin DOMAIN active THEN 0
                ELSE FirstFreeLane(DOMAIN active)
    IN  [lane |-> lane, active |-> Put(active, lane, process_name),
         reserved |-> reserved, freed |-> FALSE]

\* Variant of InheritLane: the child of a single parent goes to lane 0.
InheritLane_zero(active, reserved, process_name, parent_lane) ==
    [lane |-> 0, active |-> Put(active, 0, process_name),
     reserved |-> reserved, freed |-> FALSE]

\* Variant of InheritLane: the parent's lane is handed over and dropped from
\* the active lanes instead of being re-occupied.
InheritLane_release(active, reserved, process_name, parent_lane) ==
    [lane |-> parent_lane, active |-> Del(active, parent_lane),
     reserved |-> reserved, freed |-> FALSE]

\* Lines 159-163: a single parent, inherit its lane.
InheritLane(active, reserved, process_name, parent_lane) ==
    [lane |-> parent_lane, active |-> Put(active, parent_lane, process_name),
     reserved |-> reserved, freed |-> FALSE]

\* Lines 165-185: a merge uses the leftmost parent's lane and frees the
\* other parent lanes that are done.
MergeLane(nodes, order, active, reserved, process_name, parent_lanes) ==
    LET lane == MinLane(parent_lanes)
        res == FreeParentLanes(nodes, order, process_name, lane, parent_lanes,
                   [active |-> Put(active, lane, process_name), freed |-> FALSE])
    IN  [lane |-> lane, active |-> res.active, reserved |-> reserved,
         freed |-> res.freed]

\* Lines 133-185.
NodeLane(nodes, order, active, reserved, process_name) ==
    IF process_name \in DOMAIN reserved
    THEN ReservedLane(active, reserved, process_name)
    ELSE LET parent_lanes == ParentLanes(nodes, nodes[process_name].parents)
         IN  IF parent_lanes = <<>>
             THEN RootLane(active, reserved, process_name)
             ELSE IF Len(parent_lanes) = 1
             THEN InheritLane(active, reserved, process_name, parent_lanes[1])
             ELSE MergeLane(nodes, order, active, reserved, process_name,
                            parent_lanes)

\* sorted(node.children, key=lambda c: exec_positions.get(c, 999999)):
\* a stable insertion sort on the arrival position.
RECURSIVE InsertSorted(_, _, _)
InsertSorted(order, sorted, c) ==
    IF sorted = <<>> THEN <<c>>
    ELSE IF Position(order, c) < Position(order, Head(sorted))
         THEN <<c>> \o sorted
         ELSE <<Head(sorted)>> \o InsertSorted(order, Tail(sorted), c)

RECURSIVE SortChildren(_, _, _)
SortChildren(order, children, sorted) ==
    IF children = <<>> THEN sorted
    ELSE SortChildren(order, Tail(children),
                      InsertSorted(order, sorted, Head(children)))

\* Variant of sorted_children: the children in the order they were linked.
sorted_children_unsorted(order, children) == children

sorted_children(order, children) == SortChildren(order, children, <<>>)

\* Lines 194-204: reserve a lane for every child but the first.
RECURSIVE ReserveLanes(_, _, _, _)
ReserveLanes(nodes, active, reserved, others) ==
    IF others = <<>> THEN reserved
    ELSE LET child_name == Head(others)
             used_lanes == DOMAIN active \cup Values(reserved)
             next == IF child_name \in DOMAIN nodes
                     THEN Put(reserved, child_name, FirstFreeLane(used_lanes))
                     ELSE reserved
         IN  ReserveLanes(nodes, active, next, Tail(others))

\* Variant of LoopBody: a lane is reserved for the first child too.
LoopBody_reserve_all(nodes, order, active, reserved, process_name) ==
    LET a == NodeLane(nodes, order, active, reserved, process_name)
        children == nodes[process_name].children
    IN  [nodes |-> [nodes EXCEPT ![process_name].lane = a.lane],
         active |-> a.active,
         reserved |-> IF Len(children) > 1
                      THEN ReserveLanes(nodes, a.active, a.reserved,
                               sorted_children(order, children))
                      ELSE a.reserved,
         freed |-> a.freed]

\* Lines 129-204: one iteration of "for process_name in self.execution_order".
LoopBody(nodes, order, active, reserved, process_name) ==
    LET a == NodeLane(nodes, order, active, reserved, process_name)
        children == nodes[process_name].children
    IN  [nodes |-> [nodes EXCEPT ![process_name].lane = a.lane],
         active |-> a.active,
         reserved |-> IF Len(children) > 1
                      THEN ReserveLanes(nodes, a.active, a.reserved,
                               Tail(sorted_children(order, children)))
                      ELSE a.reserved,
         freed |-> a.freed]

\* Variant of ResetLanes: the lanes of the last pass are kept.
ResetLanes_skip(nodes) == nodes

\* Lines 117-119: for node in self.nodes.values(): node.lane = 0
ResetLanes(nodes) == [n \in DOMAIN nodes |-> [nodes[n] EXCEPT !.lane = 0]]

RECURSIVE RunLoop(_, _, _, _, _)
RunLoop(nodes, order, active, reserved, k) ==
    IF k > Len(order) THEN nodes
    ELSE LET b == LoopBody(nodes, order, active, reserved, order[k])
         IN  RunLoop(b.nodes, order, b.active, b.reserved, k + 1)

\* SubwayGraph.assign_lanes, as one call
assign_lanes(g) ==
    IF g.lanes_assigned THEN g
    ELSE [g EXCEPT !.nodes = RunLoop(ResetLanes(g.nodes), g.execution_order,
                                     EmptyMap, EmptyMap, 1),
                   !.lanes_assigned = TRUE]

\* ------------------------------------------------------------- grid
\* grid.py, GridRenderer.COLUMN_WIDTH
COLUMN_WIDTH == 4

\* class CharacterSet: the attributes of an object of the class, by name.  A
\* glyph is kept as the name characters.py gives it ("X" stands for itself).
CharacterSet ==
    [DOT |-> "dot", DOT_SECONDARY |-> "circle", SPACE |-> " ",
     VERTICAL |-> "vertical", HORIZONTAL |-> "horizontal",
     CORNER_RD |-> "corner_rd", CORNER_RU |-> "corner_ru",
     CORNER_LD |-> "corner_ld", CORNER_LU |-> "corner_lu",
     SPLIT_RIGHT |-> "split_right", SPLIT_LEFT |-> "split_left",
     MERGE_DOWN |-> "merge_down", MERGE_UP |-> "merge_up", CROSS |-> "cross"]

\* CharacterSet.thin()
thin == CharacterSet

\* CharacterSet.round(): the four corners are replaced by rounded ones.
round ==
    [CharacterSet EXCEPT !.CORNER_RD = "round_rd", !.CORNER_RU = "round_ru",
                         !.CORNER_LD = "round_ld", !.CORNER_LU = "round_lu"]

\* A GridRenderer is [num_columns, num_rows, width, chars, grid, raised]:
\* grid[row][x] is the character of the cell (rows and x from 0), and raised
\* says that a step of the rendering raised an exception, after which nothing
\* is drawn.  The colour of a cell is not kept.
GridRenderer(num_columns, num_rows) ==
    [num_columns |-> num_columns, num_rows |-> num_rows,
     width |-> num_columns * COLUMN_WIDTH,
     chars |-> thin,
     grid |-> [row \in 0..(num_rows - 1) |->
                 [x \in 0..(num_columns * COLUMN_WIDTH - 1) |-> " "]],
     raised |-> FALSE]

\* GridRenderer._col_to_x
col_to_x(col) == col * COLUMN_WIDTH

\* list[i]: an index from -len to len - 1 is accepted, a negative one counts
\* from the end; any other raises IndexError.
IndexOk(len, i) == -len <= i /\ i < len
Index(len, i) == IF i >= 0 THEN i ELSE len + i

\* chars.NAME: AttributeError when the object has no such attribute.
HasAttr(chars, attr) == attr \in DOMAIN chars

Raise(gr) == [gr EXCEPT !.raised = TRUE]

\* GridRenderer.set_char
set_char(gr, row, col, char) ==
    IF gr.raised THEN gr
    ELSE IF row < 0 \/ row >= gr.num_rows THEN gr
    ELSE IF col < 0 \/ col >= gr.num_columns THEN gr
    ELSE [gr EXCEPT !.grid[row][col_to_x(col)] = char]

\* set_char(row, col, chars.NAME): the attribute is read before the call.
set_attr(gr, chars, row, col, attr) ==
    IF gr.raised THEN gr
    ELSE IF ~HasAttr(chars, attr) THEN Raise(gr)
    ELSE set_char(gr, row, col, chars[attr])

\* Variant of draw_vertical_line: the stroke stops one row early.
RECURSIVE draw_vertical_line_short(_, _, _, _)
draw_vertical_line_short(gr, row_start, row_end, col) ==
    IF row_start + 2 >= row_end THEN gr
    ELSE draw_vertical_line_short(
             set_attr(gr, gr.chars, row_start + 1, col, "VERTICAL"),
             row_start + 1, row_end, col)

\* GridRenderer.draw_vertical_line: for row in range(row_start + 1, row_end)
RECURSIVE draw_vertical_line(_, _, _, _)
draw_vertical_line(gr, row_start, row_end, col) ==
    IF row_start + 1 >= row_end THEN gr
    ELSE draw_vertical_line(
             set_attr(gr, gr.chars, row_start + 1, col, "VERTICAL"),
             row_start + 1, row_end, col)

\* draw_horizontal_line, lines 167-169: for x in range(x, x_end)
RECURSIVE HorizontalCells(_, _, _, _)
HorizontalCells(gr, row, x, x_end) ==
    IF gr.raised \/ x >= x_end THEN gr
    ELSE IF ~IndexOk(gr.num_rows, row) \/ ~IndexOk(gr.width, x) THEN Raise(gr)
    ELSE LET r == Index(gr.num_rows, row)
             c == Index(gr.width, x)
             next == IF gr.grid[r][c] = " "
                     THEN [gr EXCEPT !.grid[r][c] = gr.chars.HORIZONTAL]
                     ELSE gr
         IN  HorizontalCells(next, row, x + 1, x_end)

\* GridRenderer.draw_horizontal_line
draw_horizontal_line(gr, row, col_start, col_end) ==
    LET a == col_to_x(col_start)
        b == col_to_x(col_end)
        x_start == IF a > b THEN b ELSE a
        x_end == IF a > b THEN a ELSE b
    IN  HorizontalCells(gr, row, x_start + 1, x_end)

\* sorted(cols), by insertion
RECURSIVE InsertInt(_, _)
InsertInt(sorted, c) ==
    IF sorted = <<>> THEN <<c>>
    ELSE IF c < Head(sorted) THEN <<c>> \o sorted
         ELSE <<Head(sorted)>> \o InsertInt(Tail(sorted), c)

RECURSIVE SortInts(_, _)
SortInts(cols, sorted) ==
    IF cols = <<>> THEN sorted
    ELSE SortInts(Tail(cols), InsertInt(sorted, Head(cols)))

sorted(cols) == SortInts(cols, <<>>)

Min2(a, b) == IF a < b THEN a ELSE b
Max2(a, b) == IF a < b THEN b ELSE a

\* for col in cols: if col != hub: draw_horizontal_line(row, min(col, hub),
\* max(col, hub))
RECURSIVE Spokes(_, _, _, _)
Spokes(gr, row, cols, hub) ==
    IF cols = <<>> THEN gr
    ELSE LET col == Head(cols)
             next == IF col # hub
                     THEN draw_horizontal_line(gr, row,
                              Min2(col, hub), Max2(col, hub))
                     ELSE gr
         IN  Spokes(next, row, Tail(cols), hub)

\* GridRenderer.draw_merge
draw_merge(gr, row, cols, to_col) ==
    IF cols = <<>> THEN gr
    ELSE LET from_cols == sorted(cols)
             left_col == from_cols[1]
             right_col == from_cols[Len(from_cols)]
         IN  IF Len(from_cols) = 2
             THEN IF to_col = left_col
                  THEN set_attr(
                           draw_horizontal_line(
                               set_attr(gr, gr.chars, row, left_col, "SPLIT_RIGHT"),
                               row, left_col, right_col),
                           gr.chars, row, right_col, "CORNER_LU")
                  ELSE IF to_col = right_col
                  THEN set_attr(
                           draw_horizontal_line(
                               set_attr(gr, gr.chars, row, left_col, "CORNER_LD"),
                               row, left_col, right_col),
                           gr.chars, row, right_col, "SPLIT_LEFT")
                  ELSE Spokes(set_attr(gr, gr.chars, row, to_col, "MERGE_UP"),
                              row, from_cols, to_col)
             ELSE Spokes(set_attr(gr, gr.chars, row, to_col, "MERGE_UP"),
                         row, from_cols, to_col)

\* GridRenderer.draw_split
draw_split(gr, row, from_col, cols) ==
    IF cols = <<>> THEN gr
    ELSE LET to_cols == sorted(cols)
             left_col == to_cols[1]
             right_col == to_cols[Len(to_cols)]
         IN  IF Len(to_cols) = 2
             THEN IF from_col = left_col
                  THEN set_attr(
                           draw_horizontal_line(
                               set_attr(gr, gr.chars, row, left_col, "SPLIT_RIGHT"),
                               row, left_col, right_col),
                           gr.chars, row, right_col, "CORNER_RU")
                  ELSE IF from_col = right_col
                  THEN set_attr(
                           draw_horizontal_line(
                               set_attr(gr, gr.chars, row, left_col, "CORNER_RD"),
                               row, left_col, right_col),
                           gr.chars, row, right_col, "SPLIT_LEFT")
                  ELSE Spokes(set_attr(gr, gr.chars, row, from_col, "MERGE_DOWN"),
                              row, to_cols, from_col)
             ELSE Spokes(set_attr(gr, gr.chars, row, from_col, "MERGE_DOWN"),
                         row, to_cols, from_col)

\* ------------------------------------------------------------- renderer
\* SubwayGraph.get_ordered_processes, as the names of the nodes
RECURSIVE OrderedNames(_, _)
OrderedNames(nodes, order) ==
    IF order = <<>> THEN <<>>
    ELSE IF Head(order) \in DOMAIN nodes
         THEN <<Head(order)>> \o OrderedNames(nodes, Tail(order))
         ELSE OrderedNames(nodes, Tail(order))

get_ordered_processes(g) == OrderedNames(g.nodes, g.execution_order)

\* max((node.lane for node in processes), default=0)
MaxLane(nodes, processes) ==
    IF processes = <<>> THEN 0
    ELSE CHOOSE m \in {nodes[n].lane : n \in Range(processes)} :
             \A n \in Range(processes) : nodes[n].lane <= m

\* _render_vertical_grid, lines 94-106: the dot character, as the attribute
\* of chars it is read from, or the character itself.
DotChar(chars, status) ==
    IF status = COMPLETED THEN chars.DOT
    ELSE IF status = FAILED THEN "X"
    ELSE IF status = RUNNING THEN chars.DOT
    ELSE chars.DOT_SECONDARY

\* Lines 123-144: the connections from the parents, on the row above.
FromParents(gr, chars, connector_row, lane, parent_lanes) ==
    IF Len(parent_lanes) > 1
    THEN draw_merge(gr, connector_row, parent_lanes, lane)
    ELSE IF Len(parent_lanes) = 1
    THEN LET parent_lane == parent_lanes[1]
         IN  IF parent_lane = lane
             THEN set_attr(gr, chars, connector_row, lane, "VERTICAL")
             ELSE IF parent_lane < lane
             THEN set_attr(
                      draw_horizontal_line(
                          set_attr(gr, chars, connector_row, parent_lane,
                                   "CORNER_LD"),
                          connector_row, parent_lane, lane),
                      chars, connector_row, lane, "ARROW_RIGHT")
             ELSE set_attr(
                      draw_horizontal_line(
                          set_attr(gr, chars, connector_row, lane,
                                   "ARROW_LEFT"),
                          connector_row, lane, parent_lane),
                      chars, connector_row, parent_lane, "CORNER_LU")
    ELSE gr

\* Lines 146-158: the connections to the children, on the row below.
ToChildren(gr, chars, connector_row, lane, child_lanes) ==
    IF Len(child_lanes) > 1
    THEN draw_split(gr, connector_row, lane, child_lanes)
    ELSE IF Len(child_lanes) = 1 /\ child_lanes[1] = lane
    THEN set_attr(gr, chars, connector_row, lane, "VERTICAL")
    ELSE gr

\* Lines 88-158: "for idx, node in enumerate(processes)", from index idx
\* (0-based) on.
RECURSIVE DrawProcesses(_, _, _, _, _)
DrawProcesses(gr, chars, nodes, processes, idx) ==
    IF gr.raised \/ idx >= Len(processes) THEN gr
    ELSE LET node == nodes[processes[idx + 1]]
             row == idx * 2
             g1 == set_char(gr, row, node.lane, DotChar(chars, node.status))
             g2 == IF idx > 0
                   THEN FromParents(g1, chars, row - 1, node.lane,
                                    ParentLanes(nodes, node.parents))
                   ELSE g1
             g3 == IF idx < Len(processes) - 1
                   THEN ToChildren(g2, chars, row + 1, node.lane,
                                   ParentLanes(nodes, node.children))
                   ELSE g2
         IN  DrawProcesses(g3, chars, nodes, processes, idx + 1)

\* Lines 80-85: lane_rows[lane], the rows of the nodes of the lane, ascending.
RECURSIVE LaneRows(_, _, _, _)
LaneRows(nodes, processes, lane, idx) ==
    IF idx >= Len(processes) THEN <<>>
    ELSE IF nodes[processes[idx + 1]].lane = lane
         THEN <<idx * 2>> \o LaneRows(nodes, processes, lane, idx + 1)
         ELSE LaneRows(nodes, processes, lane, idx + 1)

\* Lines 163-168: for row_start, row_end in zip(ordered_rows, ordered_rows[1:])
RECURSIVE LaneStrokes(_, _, _)
LaneStrokes(gr, lane, rows) ==
    IF Len(rows) < 2 THEN gr
    ELSE LaneStrokes(draw_vertical_line(gr, rows[1], rows[2], lane),
                     lane, Tail(rows))

\* Lines 160-168: for lane, rows in lane_rows.items()
RECURSIVE DrawLanes(_, _, _, _)
DrawLanes(gr, nodes, processes, lanes) ==
    IF lanes = {} THEN gr
    ELSE LET lane == CHOOSE l \in lanes : \A k \in lanes : l <= k
         IN  DrawLanes(LaneStrokes(gr, lane,
                                   LaneRows(nodes, processes, lane, 0)),
                       nodes, processes, lanes \ {lane})

\* SubwayRenderer._render_vertical_grid, lines 71-168: the grid the lines are
\* built from.
render_vertical_grid(g) ==
    LET processes == get_ordered_processes(g)
        chars == round
        max_lane == MaxLane(g.nodes, processes)
        gr == GridRenderer(max_lane + 1, Len(processes) * 2 - 1)
        drawn == DrawProcesses(gr, chars, g.nodes, processes, 0)
    IN  DrawLanes(drawn, g.nodes, processes,
                  {g.nodes[n].lane : n \in Range(processes)})

\* ------------------------------------------------------------- blink
\* colors.py, BlinkEffect.frames_per_blink
frames_per_blink == 3

\* BlinkEffect.tick, on the frame counter
tick(frame) == frame + 1

\* Variant of should_show_bright: bright on the first frame of each blink.
should_show_bright_first(frame) == frame % frames_per_blink = 0

\* BlinkEffect.should_show_bright
should_show_bright(frame) == (frame \div frames_per_blink) % 2 = 0

\* BlinkEffect.get_running_style
get_running_style(frame) ==
    IF should_show_bright(frame) THEN "bright_blue bold" ELSE "blue dim"

\* The style of the dots of the Running nodes in a panel rendered at the
\* given frame (renderer.py:99-101, 230-231): None when no node is Running.
RunningStyle(g, frame) ==
    IF \E n \in DOMAIN g.nodes : g.nodes[n].status = RUNNING
    THEN <<get_running_style(frame)>> ELSE None

\* ------------------------------------------------------------- lines
\* A line of Nextflow output is kept as what parse_line reads from it:
\*   kind "process":  a task, completion or failure line naming a process,
\*   kind "complete": a line matching WORKFLOW_COMPLETE,
\*   kind "other":    a line parse_line returns None for,
\* and raw_complete: the raw text holds 'Pipeline completed' or
\* 'Execution status: OK'.
ProcessLine(process, task_id, status, duration, annotation, raw_complete) ==
    [kind |-> "process", process |-> process, task_id |-> task_id,
     status |-> status, duration |-> duration, annotation |-> annotation,
     raw_complete |-> raw_complete]

CompleteLine ==
    [kind |-> "complete", process |-> "", task_id |-> None, status |-> "",
     duration |-> None, annotation |-> None, raw_complete |-> TRUE]

OtherLine(raw_complete) ==
    [kind |-> "other", process |-> "", task_id |-> None, status |-> "",
     duration |-> None, annotation |-> None, raw_complete |-> raw_complete]

\* Truth value of an optional number: None and 0.0 are false.
Truthy(duration) == duration # None /\ duration[1] # 0

\* NextflowOutputParser.parse_and_update: [parsed, seen_processes] where
\* parsed is None or <<the line>>.
parse_and_update(seen_processes, line) ==
    IF line.kind = "other"
    THEN [parsed |-> None, seen_processes |-> seen_processes]
    ELSE IF line.kind = "complete"
    THEN [parsed |-> <<line>>, seen_processes |-> seen_processes]
    ELSE LET key == <<line.process, line.task_id>>
         IN  IF key \notin DOMAIN seen_processes
             THEN [parsed |-> <<line>>,
                   seen_processes |-> Put(seen_processes, key, line)]
             ELSE LET existing == seen_processes[key]
                  IN  IF \/ line.status # existing.status
                         \/ (Truthy(line.duration) /\ ~Truthy(existing.duration))
                      THEN [parsed |-> <<line>>,
                            seen_processes |-> Put(seen_processes, key, line)]
                      ELSE [parsed |-> None, seen_processes |-> seen_processes]

\* ------------------------------------------------------------- monitor
\* The process names of the monitored pipelines, in Python's string order,
\* and for each its sub-workflow prefix: name.split(":", 1)[0] if ":" in name.
MonitorNames == <<"A", "B", "W:C", "w:D">>

WorkflowName(process_name) ==
    CASE process_name = "W:C" -> <<"W">>
      [] process_name = "w:D" -> <<"w">>
      [] OTHER -> None

\* NextflowMonitor._normalize_workflow_key on the prefixes above (none holds
\* an ellipsis): workflow_name.strip().lower()
normalize_workflow_key(workflow_name) ==
    IF workflow_name = "W" THEN "w" ELSE workflow_name

\* NextflowMonitor.__init__: the flag, the queue, the parser state and the
\* dependency-inference state (the graph is the store); live is the Live
\* display of the renderer: "none", "started" or "stopped", and frame the
\* frame counter of its BlinkEffect, which SpecBlink follows.
NextflowMonitor ==
    [is_running |-> FALSE,
     output_queue |-> <<>>,
     seen_processes |-> EmptyMap,
     last_process |-> None,
     last_top_level_process |-> None,
     workflow_last_processes |-> EmptyMap,
     open_workflow_tails |-> EmptyMap,
     live |-> "none",
     frame |-> 0]

\* dict.get(k): None or <<value>>
Get(d, k) == IF k \in DOMAIN d THEN <<d[k]>> ELSE None

\* for tail_name in sorted(set(tails)): if tail_name != process_name:
\*     self.graph.add_dependency(tail_name, process_name)
RECURSIVE LinkTails(_, _, _, _)
LinkTails(g, tails, k, process_name) ==
    IF k > Len(MonitorNames) THEN g
    ELSE LET tail_name == MonitorNames[k]
             g1 == IF tail_name \in tails /\ tail_name # process_name
                   THEN add_dependency(g, tail_name, process_name)
                   ELSE g
         IN  LinkTails(g1, tails, k + 1, process_name)

\* NextflowMonitor._infer_dependency: [graph, monitor]
infer_dependency(g, m, process_name) ==
    IF WorkflowName(process_name) # None
    THEN LET workflow_name == WorkflowName(process_name)[1]
             workflow_key == normalize_workflow_key(workflow_name)
             previous_in_workflow ==
                 IF Get(m.workflow_last_processes, workflow_name) # None
                 THEN Get(m.workflow_last_processes, workflow_name)
                 ELSE Get(m.workflow_last_processes, workflow_key)
             g1 == IF /\ previous_in_workflow # None
                      /\ previous_in_workflow[1] # process_name
                   THEN add_dependency(g, previous_in_workflow[1], process_name)
                   ELSE IF /\ m.last_top_level_process # None
                           /\ m.last_top_level_process[1] # process_name
                   THEN add_dependency(g, m.last_top_level_process[1],
                                       process_name)
                   ELSE g
         IN  [graph |-> g1,
              monitor |->
                 [m EXCEPT !.workflow_last_processes =
                               Put(Put(@, workflow_name, process_name),
                                   workflow_key, process_name),
                           !.open_workflow_tails =
                               Put(@, workflow_key, process_name)]]
    ELSE LET g1 == IF m.open_workflow_tails # EmptyMap
                   THEN LinkTails(g, Values(m.open_workflow_tails), 1,
                                  process_name)
                   ELSE IF /\ m.last_top_level_process # None
                           /\ m.last_top_level_process[1] # process_name
                   THEN add_dependency(g, m.last_top_level_process[1],
                                       process_name)
                   ELSE g
         IN  [graph |-> g1,
              monitor |->
                 [m EXCEPT !.open_workflow_tails = EmptyMap,
                           !.last_top_level_process = <<process_name>>]]

\* Variant of mark_workflow_complete: every node is set to Completed.
RECURSIVE mark_workflow_complete_all(_, _)
mark_workflow_complete_all(g, k) ==
    IF k > Len(g.execution_order) THEN g
    ELSE mark_workflow_complete_all(
             update_process(g, g.execution_order[k], COMPLETED, None, None),
             k + 1)

\* NextflowMonitor._mark_workflow_complete, from the k-th process of
\* get_ordered_processes() on.
RECURSIVE mark_workflow_complete(_, _)
mark_workflow_complete(g, k) ==
    IF k > Len(g.execution_order) THEN g
    ELSE LET name == g.execution_order[k]
             g1 == IF g.nodes[name].status \in {RUNNING, PENDING}
                   THEN update_process(g, name, COMPLETED, None, None)
                   ELSE g
         IN  mark_workflow_complete(g1, k + 1)

\* Variant of process_line: the dependencies are inferred for every process
\* line, whether the process is new or not.
process_line_relink(g, m, line) ==
    LET p == parse_and_update(m.seen_processes, line)
        m1 == [m EXCEPT !.seen_processes = p.seen_processes]
    IN  IF p.parsed = None
        THEN IF line.raw_complete
             THEN [graph |-> mark_workflow_complete(g, 1), monitor |-> m1,
                   complete |-> TRUE]
             ELSE [graph |-> g, monitor |-> m1, complete |-> FALSE]
        ELSE IF line.kind = "complete"
        THEN [graph |-> mark_workflow_complete(g, 1), monitor |-> m1,
              complete |-> TRUE]
        ELSE LET g1 == update_process(g, line.process, line.status,
                                      line.duration, line.annotation)
                 r == infer_dependency(g1, m1, line.process)
             IN  [graph |-> r.graph,
                  monitor |-> [r.monitor EXCEPT !.last_process =
                                                    <<line.process>>],
                  complete |-> FALSE]

\* NextflowMonitor._process_line: [graph, monitor, complete], complete being
\* the value returned.
process_line(g, m, line) ==
    LET p == parse_and_update(m.seen_processes, line)
        m1 == [m EXCEPT !.seen_processes = p.seen_processes]
    IN  IF p.parsed = None
        THEN IF line.raw_complete
             THEN [graph |-> mark_workflow_complete(g, 1), monitor |-> m1,
                   complete |-> TRUE]
             ELSE [graph |-> g, monitor |-> m1, complete |-> FALSE]
        ELSE IF line.kind = "complete"
        THEN [graph |-> mark_workflow_complete(g, 1), monitor |-> m1,
              complete |-> TRUE]
        ELSE LET is_new_process == line.process \notin DOMAIN g.nodes
                 g1 == update_process(g, line.process, line.status,
                                      line.duration, line.annotation)
                 r == IF is_new_process
                      THEN infer_dependency(g1, m1, line.process)
                      ELSE [graph |-> g1, monitor |-> m1]
             IN  [graph |-> r.graph,
                  monitor |-> [r.monitor EXCEPT !.last_process =
                                                    <<line.process>>],
                  complete |-> FALSE]

\* The end signal _read_input puts on the queue (None in the source).
EndSignal ==
    [kind |-> "end", process |-> "", task_id |-> None, status |-> "",
     duration |-> None, annotation |-> None, raw_complete |-> FALSE]

\* The two threads of start(): the reader (_read_input) and the update loop
\* (_update_loop), each with its position and its locals.
Threads ==
    [reader |-> "idle", line |-> EndSignal,
     loop |-> "init", lines_processed |-> 0, pipeline_complete |-> FALSE]

\* History of a run.  grid is the GridRenderer of the last call when that call
\* was render_to_lines on a store with processes (<<the grid>>), None
\* otherwise.  updates counts the calls of SubwayLiveRenderer.update,
\* live_updates those made on a display that start() had created, and style
\* is the style of the Running dots in the panel rendered last.
Journal ==
    [read_log |-> <<>>, applied_log |-> <<>>, returned |-> FALSE,
     renders |-> 0, passes |-> 0, shown |-> EmptyMap,
     drawn_since_complete |-> FALSE, end_taken |-> FALSE, grid |-> None,
     updates |-> 0, live_updates |-> 0, style |-> None]

\* ------------------------------------------------------------- state
VARIABLES
    graph,           \* the SubwayGraph store
    replica,         \* a second fresh store, fed the same calls (SpecReplay)
    pc,              \* "idle", or "loop" while assign_lanes runs step by step
    cursor,          \* index into execution_order of the next loop iteration
    active_lanes,    \* assign_lanes local: lane -> occupying process name
    reserved_lanes,  \* assign_lanes local: child name -> reserved lane
    freed,           \* history: the running pass has deleted an active lane
    last_call,       \* history: the last store call, [op, known]
    monitor,         \* the NextflowMonitor object around the store
    threads,         \* where the reader thread and the update loop stand
    journal          \* history: lines read and applied, renders issued

vars == <<graph, replica, pc, cursor, active_lanes, reserved_lanes, freed,
          last_call, monitor, threads, journal>>

Init ==
    /\ graph = SubwayGraph
    /\ replica = SubwayGraph
    /\ pc = "idle"
    /\ cursor = 0
    /\ active_lanes = EmptyMap
    /\ reserved_lanes = EmptyMap
    /\ freed = FALSE
    /\ last_call = [op |-> "init", known |-> FALSE]
    /\ monitor = NextflowMonitor
    /\ threads = Threads
    /\ journal = Journal

\* ------------------------------------------------------------- inputs
Known(g) == DOMAIN g.nodes

\* The next unused name of NameList, if the bound max leaves one.
FreshNames(known, max) ==
    {NameList[k] : k \in {j \in 1..max :
        /\ NameList[j] \notin known
        /\ \A i \in 1..(j - 1) : NameList[i] \in known}}

NameInputs(g, max) == Known(g) \cup FreshNames(Known(g), max)

\* add_dependency creates the parent before the child.
ChildInputs(g, parent, max) ==
    Known(g) \cup {parent} \cup FreshNames(Known(g) \cup {parent}, max)

StatusInputs == {PENDING, COMPLETED}

HasEdge(g, parent, child) ==
    /\ parent \in DOMAIN g.nodes
    /\ Contains(g.nodes[parent].children, child)

RECURSIVE SumLen(_, _)
SumLen(nodes, names) ==
    IF names = {} THEN 0
    ELSE LET n == CHOOSE x \in names : TRUE
         IN  Len(nodes[n].children) + SumLen(nodes, names \ {n})

EdgeCount(g) == SumLen(g.nodes, DOMAIN g.nodes)

\* An edge the bound max allows to link: a repeated one, or one more.
EdgeInput(g, parent, child, max) ==
    HasEdge(g, parent, child) \/ EdgeCount(g) < max

\* ------------------------------------------------------------- store calls
PassIdle == UNCHANGED <<pc, cursor, active_lanes, reserved_lanes, freed>>

\* A call made on the store directly: no monitor is running.
MonitorIdle == UNCHANGED <<monitor, threads, journal>>

CallAddProcess(name, status) ==
    /\ pc = "idle"
    /\ MonitorIdle
    /\ graph' = add_process(graph, name, status)
    /\ last_call' = [op |-> "add_process", known |-> name \in Known(graph)]
    /\ PassIdle

CallUpdateProcess(name, status, duration, annotation) ==
    /\ pc = "idle"
    /\ MonitorIdle
    /\ graph' = update_process(graph, name, status, duration, annotation)
    /\ last_call' = [op |-> "update_process", known |-> name \in Known(graph)]
    /\ PassIdle

CallAddDependency(parent, child) ==
    /\ pc = "idle"
    /\ MonitorIdle
    /\ graph' = add_dependency(graph, parent, child)
    /\ last_call' = [op |-> "add_dependency",
                     known |-> HasEdge(graph, parent, child)]
    /\ PassIdle

\* ------------------------------------------------------------- Spec
\* The store under any interleaving of its calls and of whole layout passes.
AddProcess ==
    \E name \in NameInputs(graph, MaxLiveNodes), status \in StatusInputs :
        CallAddProcess(name, status) /\ UNCHANGED replica

UpdateProcess ==
    \E name \in NameInputs(graph, MaxLiveNodes), status \in StatusInputs :
        CallUpdateProcess(name, status, None, None) /\ UNCHANGED replica

AddDependency ==
    \E parent \in NameInputs(graph, MaxLiveNodes) :
        \E child \in ChildInputs(graph, parent, MaxLiveNodes) :
            /\ EdgeInput(graph, parent, child, MaxLiveEdges)
            /\ CallAddDependency(parent, child)
            /\ UNCHANGED replica

Clear ==
    /\ pc = "idle"
    /\ MonitorIdle
    /\ graph' = clear(graph)
    /\ last_call' = [op |-> "clear", known |-> FALSE]
    /\ PassIdle
    /\ UNCHANGED replica

AssignLanes ==
    /\ pc = "idle"
    /\ MonitorIdle
    /\ graph' = assign_lanes(graph)
    /\ last_call' = [op |-> "assign_lanes", known |-> graph.lanes_assigned]
    /\ PassIdle
    /\ UNCHANGED replica

Next ==
    \/ AddProcess
    \/ UpdateProcess
    \/ AddDependency
    \/ Clear
    \/ AssignLanes

Spec == Init /\ [][Next]_vars

\* ------------------------------------------------------------- SpecStore
\* The nodes of the store under any sequence of add_process and update_process
\* calls, update_process being called with and without a duration and an
\* annotation.  last_call keeps the arguments of an update_process call.
DurationInputs == {None, <<1>>}
AnnotationInputs == {None, <<"note">>}

StoreAddProcess ==
    \E name \in FreshNames(Known(graph), MaxStoreNodes), status \in StatusInputs :
        CallAddProcess(name, status) /\ UNCHANGED replica

StoreUpdateProcess ==
    \E name \in NameInputs(graph, MaxStoreNodes), status \in StatusInputs,
       duration \in DurationInputs, annotation \in AnnotationInputs :
        /\ pc = "idle"
        /\ MonitorIdle
        /\ graph' = update_process(graph, name, status, duration, annotation)
        /\ last_call' = [op |-> "update_process",
                         known |-> name \in Known(graph),
                         name |-> name, status |-> status,
                         duration |-> duration, annotation |-> annotation]
        /\ PassIdle
        /\ UNCHANGED replica

NextStore ==
    \/ StoreAddProcess
    \/ StoreUpdateProcess

SpecStore == Init /\ [][NextStore]_vars

\* ------------------------------------------------------------- SpecLayout
\* A store is built by add_process / add_dependency calls and then laid out
\* by one assign_lanes call, one loop iteration per step.  Only the calls that
\* change the store are taken: add_process of a new name, add_dependency of a
\* new edge (the others leave a store that is being built as it is).
Building == pc = "idle" /\ last_call.op # "assign_lanes"

BuildProcess ==
    \E name \in FreshNames(Known(graph), MaxNodes) :
        Building /\ CallAddProcess(name, PENDING) /\ UNCHANGED replica

BuildDependency ==
    \E parent \in NameInputs(graph, MaxNodes) :
        \E child \in ChildInputs(graph, parent, MaxNodes) :
            /\ Building
            /\ ~HasEdge(graph, parent, child)
            /\ EdgeCount(graph) < MaxEdges
            /\ CallAddDependency(parent, child)
            /\ UNCHANGED replica

\* assign_lanes, lines 114-127: reset the lanes and enter the loop.
AssignLanesEnter ==
    /\ Building
    /\ MonitorIdle
    /\ ~graph.lanes_assigned
    /\ last_call' = [op |-> "assign_lanes", known |-> FALSE]
    /\ graph' = [graph EXCEPT !.nodes = ResetLanes(@)]
    /\ pc' = "loop"
    /\ cursor' = 1
    /\ active_lanes' = EmptyMap
    /\ reserved_lanes' = EmptyMap
    /\ freed' = FALSE
    /\ UNCHANGED replica

\* Variant of NextPosition: the pass walks the graph, going on with the first
\* child of the node it has processed.
NextPosition_follow(g, k) ==
    LET children == g.nodes[g.execution_order[k]].children
    IN  IF children = <<>> THEN k + 1
        ELSE exec_positions(g.execution_order)[Head(children)] + 1

\* Line 129, "for process_name in self.execution_order": the position after
\* position k (1-based), whatever the edges of the store are.
NextPosition(g, k) == k + 1

\* assign_lanes, lines 129-204: one loop iteration.
AssignLanesIterate ==
    /\ pc = "loop"
    /\ MonitorIdle
    /\ cursor <= Len(graph.execution_order)
    /\ LET b == LoopBody(graph.nodes, graph.execution_order, active_lanes,
                         reserved_lanes, graph.execution_order[cursor])
       IN  /\ graph' = [graph EXCEPT !.nodes = b.nodes]
           /\ active_lanes' = b.active
           /\ reserved_lanes' = b.reserved
           /\ freed' = (freed \/ b.freed)
    /\ cursor' = NextPosition(graph, cursor)
    /\ UNCHANGED <<replica, pc, last_call>>

\* assign_lanes, line 206: the loop is over.
AssignLanesReturn ==
    /\ pc = "loop"
    /\ MonitorIdle
    /\ cursor > Len(graph.execution_order)
    /\ graph' = [graph EXCEPT !.lanes_assigned = TRUE]
    /\ pc' = "idle"
    /\ UNCHANGED <<replica, cursor, active_lanes, reserved_lanes, freed,
                   last_call>>

NextLayout ==
    \/ BuildProcess
    \/ BuildDependency
    \/ AssignLanesEnter
    \/ AssignLanesIterate
    \/ AssignLanesReturn

SpecLayout == Init /\ [][NextLayout]_vars

\* ------------------------------------------------------------- SpecFanOut
\* SpecLayout on the stores the allocator is meant for: every edge goes from a
\* node that has arrived to a node that arrives later (a new name, or a known
\* one behind the parent in execution_order).
FanProcess ==
    \E name \in FreshNames(Known(graph), MaxFanNodes) :
        Building /\ CallAddProcess(name, PENDING) /\ UNCHANGED replica

FanDependency ==
    \E parent \in Known(graph) :
        \E child \in NameInputs(graph, MaxFanNodes) \ {parent} :
            /\ Building
            /\ ~HasEdge(graph, parent, child)
            /\ EdgeCount(graph) < MaxFanEdges
            /\ child \in Known(graph) =>
                   Position(graph.execution_order, parent)
                       < Position(graph.execution_order, child)
            /\ CallAddDependency(parent, child)
            /\ UNCHANGED replica

NextFanOut ==
    \/ FanProcess
    \/ FanDependency
    \/ AssignLanesEnter
    \/ AssignLanesIterate
    \/ AssignLanesReturn

SpecFanOut == Init /\ [][NextFanOut]_vars

\* ------------------------------------------------------------- SpecDense
\* A store of a few nodes with many edges, laid out by one assign_lanes
\* call: the processes are added first, then add_dependency links any two of
\* them, a process to itself included.
DenseProcess ==
    \E name \in FreshNames(Known(graph), MaxDenseNodes) :
        /\ Building
        /\ EdgeCount(graph) = 0
        /\ CallAddProcess(name, PENDING)
        /\ UNCHANGED replica

DenseDependency ==
    \E parent \in Known(graph), child \in Known(graph) :
        /\ Building
        /\ ~HasEdge(graph, parent, child)
        /\ EdgeCount(graph) < MaxDenseEdges
        /\ CallAddDependency(parent, child)
        /\ UNCHANGED replica

\* One assign_lanes call on the store as built.
DenseAssignLanes == Building /\ AssignLanes

NextDense ==
    \/ DenseProcess
    \/ DenseDependency
    \/ DenseAssignLanes

SpecDense == Init /\ [][NextDense]_vars

\* ------------------------------------------------------------- SpecPass
\* A store that keeps growing between layout passes, each pass taken one loop
\* iteration per step.  assign_lanes is one synchronous call on the render
\* thread, so a loop iteration or the return that can be taken is taken.
GrowProcess ==
    \E name \in FreshNames(Known(graph), MaxLiveNodes) :
        CallAddProcess(name, PENDING) /\ UNCHANGED replica

GrowDependency ==
    \E parent \in NameInputs(graph, MaxLiveNodes) :
        \E child \in ChildInputs(graph, parent, MaxLiveNodes) :
            /\ ~HasEdge(graph, parent, child)
            /\ EdgeCount(graph) < MaxPassEdges
            /\ CallAddDependency(parent, child)
            /\ UNCHANGED replica

NextPass ==
    \/ GrowProcess
    \/ GrowDependency
    \/ AssignLanesEnter
    \/ AssignLanesIterate
    \/ AssignLanesReturn

SpecPass ==
    /\ Init
    /\ [][NextPass]_vars
    /\ WF_vars(AssignLanesIterate)
    /\ WF_vars(AssignLanesReturn)

\* ------------------------------------------------------------- SpecCreate
\* The store under update_process and add_dependency calls alone, on names
\* it knows and on names it has not seen; no layout pass runs.
CreateUpdate ==
    \E name \in NameInputs(graph, MaxCreateNodes), status \in StatusInputs :
        CallUpdateProcess(name, status, None, None) /\ UNCHANGED replica

CreateDependency ==
    \E parent \in NameInputs(graph, MaxCreateNodes) :
        \E child \in ChildInputs(graph, parent, MaxCreateNodes) :
            /\ EdgeInput(graph, parent, child, MaxCreateEdges)
            /\ CallAddDependency(parent, child)
            /\ UNCHANGED replica

NextCreate ==
    \/ CreateUpdate
    \/ CreateDependency

SpecCreate == Init /\ [][NextCreate]_vars

\* ------------------------------------------------------------- SpecRelayout
\* The structure of the store under any interleaving of add_process and
\* add_dependency calls, repeated ones included, and of whole layout passes.
RelayProcess ==
    \E name \in FreshNames(Known(graph), MaxRelayNodes) :
        CallAddProcess(name, PENDING) /\ UNCHANGED replica

RelayDependency ==
    \E parent \in NameInputs(graph, MaxRelayNodes) :
        \E child \in ChildInputs(graph, parent, MaxRelayNodes) :
            /\ EdgeInput(graph, parent, child, MaxRelayEdges)
            /\ CallAddDependency(parent, child)
            /\ UNCHANGED replica

NextRelayout ==
    \/ RelayProcess
    \/ RelayDependency
    \/ AssignLanes

SpecRelayout == Init /\ [][NextRelayout]_vars

\* ------------------------------------------------------------- SpecReplay
\* Two fresh stores are fed the same calls in the same order; each runs its
\* layout passes whenever it likes.
ReplayAddProcess ==
    \E name \in NameInputs(graph, MaxLiveNodes) :
        /\ CallAddProcess(name, PENDING)
        /\ replica' = add_process(replica, name, PENDING)

ReplayUpdateProcess ==
    \E name \in NameInputs(graph, MaxLiveNodes) :
        /\ CallUpdateProcess(name, PENDING, None, None)
        /\ replica' = update_process(replica, name, PENDING, None, None)

ReplayAddDependency ==
    \E parent \in NameInputs(graph, MaxLiveNodes) :
        \E child \in ChildInputs(graph, parent, MaxLiveNodes) :
            /\ EdgeInput(graph, parent, child, MaxLiveEdges)
            /\ CallAddDependency(parent, child)
            /\ replica' = add_dependency(replica, parent, child)

ReplayAssignLanes ==
    /\ pc = "idle"
    /\ MonitorIdle
    /\ graph' = assign_lanes(graph)
    /\ UNCHANGED <<replica, last_call>>
    /\ PassIdle

ReplicaAssignLanes ==
    /\ pc = "idle"
    /\ MonitorIdle
    /\ replica' = assign_lanes(replica)
    /\ UNCHANGED <<graph, last_call>>
    /\ PassIdle

NextReplay ==
    \/ ReplayAddProcess
    \/ ReplayUpdateProcess
    \/ ReplayAddDependency
    \/ ReplayAssignLanes
    \/ ReplicaAssignLanes

SpecReplay == Init /\ [][NextReplay]_vars

\* ------------------------------------------------------------- SpecEvents
\* The update loop's work on the store alone: lines are applied one after the
\* other by _process_line, with renders of the store in between.
EventLines ==
    {ProcessLine(MonitorNames[k], <<"t1">>, status, None, <<"note">>, FALSE) :
        k \in 1..Len(MonitorNames), status \in ProcessStatus}
    \cup {CompleteLine, OtherLine(FALSE), OtherLine(TRUE)}

\* SubwayRenderer.render_to_lines, its effect on the store: the layout pass it
\* runs unless there is no process yet.
render_to_lines(g) == IF g.execution_order = <<>> THEN g ELSE assign_lanes(g)

EventLine ==
    \E line \in EventLines :
        LET r == process_line(graph, monitor, line)
        IN  /\ pc = "idle"
            /\ Len(journal.applied_log) < MaxEvents
            /\ graph' = r.graph
            /\ monitor' = r.monitor
            /\ journal' = [journal EXCEPT !.applied_log = Append(@, line),
                                          !.returned = r.complete]
            /\ PassIdle
            /\ UNCHANGED <<replica, last_call, threads>>

EventRender ==
    /\ pc = "idle"
    /\ graph' = render_to_lines(graph)
    /\ PassIdle
    /\ UNCHANGED <<replica, last_call, monitor, threads, journal>>

NextEvents ==
    \/ EventLine
    \/ EventRender

SpecEvents == Init /\ [][NextEvents]_vars

\* ------------------------------------------------------------- SpecRender
\* A store is built by add_process, update_process and add_dependency calls
\* and then drawn by render_to_lines (vertical orientation), whose layout pass
\* is the first one of the store; statuses go on changing between the renders
\* that follow.  add_process is called with new names (with a known name it
\* changes nothing) and update_process with known ones.
DrawIdle == UNCHANGED <<replica, monitor, threads, last_call>>

\* The statuses drawn: one whose marker is an attribute of the character set
\* and the one whose marker is the letter X.
DrawStatus == {PENDING, FAILED}

DrawProcess ==
    \E name \in FreshNames(Known(graph), MaxDrawNodes), status \in DrawStatus :
        /\ pc = "idle"
        /\ ~graph.lanes_assigned
        /\ graph' = add_process(graph, name, status)
        /\ journal' = [journal EXCEPT !.grid = None]
        /\ PassIdle
        /\ DrawIdle

DrawUpdate ==
    \E name \in Known(graph), status \in DrawStatus :
        /\ pc = "idle"
        /\ graph' = update_process(graph, name, status, None, None)
        /\ journal' = [journal EXCEPT !.grid = None]
        /\ PassIdle
        /\ DrawIdle

DrawDependency ==
    \E parent \in NameInputs(graph, MaxDrawNodes) :
        \E child \in ChildInputs(graph, parent, MaxDrawNodes) :
            /\ pc = "idle"
            /\ ~graph.lanes_assigned
            /\ EdgeInput(graph, parent, child, MaxDrawEdges)
            /\ graph' = add_dependency(graph, parent, child)
            /\ journal' = [journal EXCEPT !.grid = None]
            /\ PassIdle
            /\ DrawIdle

\* SubwayRenderer.render_to_lines(orientation='vertical'): the layout pass if
\* the layout is stale, then the grid.
Render ==
    /\ pc = "idle"
    /\ graph' = render_to_lines(graph)
    /\ journal' = [journal EXCEPT !.grid =
                       IF get_ordered_processes(graph) = <<>> THEN None
                       ELSE <<render_vertical_grid(graph')>>]
    /\ PassIdle
    /\ DrawIdle

NextRender ==
    \/ DrawProcess
    \/ DrawUpdate
    \/ DrawDependency
    \/ Render

SpecRender == Init /\ [][NextRender]_vars

\* ------------------------------------------------------------- SpecBlink
\* SubwayLiveRenderer around a store without edges whose processes are
\* reported Running or Completed: start(), update() and stop() in any order.
BlinkStatus == {RUNNING, COMPLETED}

BlinkProcess ==
    \E name \in NameInputs(graph, MaxBlinkNodes), status \in BlinkStatus :
        CallUpdateProcess(name, status, None, None) /\ UNCHANGED replica

BlinkIdle == UNCHANGED <<replica, threads, last_call>>

\* SubwayLiveRenderer.start: the Live display is created around the panel
\* rendered now.
BlinkStart ==
    /\ pc = "idle"
    /\ graph' = render_to_lines(graph)
    /\ monitor' = [monitor EXCEPT !.live = "started"]
    /\ journal' = [journal EXCEPT
          !.style = RunningStyle(graph, monitor.frame)]
    /\ PassIdle
    /\ BlinkIdle

\* SubwayLiveRenderer.update: if self.live, the animation is advanced by one
\* frame and the panel is rendered again.
BlinkUpdate ==
    /\ pc = "idle"
    /\ journal.updates < MaxUpdates
    /\ IF monitor.live = "none"
       THEN /\ journal' = [journal EXCEPT !.updates = @ + 1]
            /\ UNCHANGED <<graph, monitor>>
       ELSE /\ monitor' = [monitor EXCEPT !.frame = tick(@)]
            /\ graph' = render_to_lines(graph)
            /\ journal' = [journal EXCEPT
                  !.updates = @ + 1,
                  !.live_updates = @ + 1,
                  !.style = RunningStyle(graph, monitor'.frame)]
    /\ PassIdle
    /\ BlinkIdle

\* SubwayLiveRenderer.stop: if self.live: self.live.stop()
BlinkStop ==
    /\ pc = "idle"
    /\ monitor' = [monitor EXCEPT !.live =
                       IF @ = "none" THEN "none" ELSE "stopped"]
    /\ UNCHANGED <<graph, journal>>
    /\ PassIdle
    /\ BlinkIdle

NextBlink ==
    \/ BlinkProcess
    \/ BlinkStart
    \/ BlinkUpdate
    \/ BlinkStop

SpecBlink == Init /\ [][NextBlink]_vars

\* ------------------------------------------------------------- SpecMonitor
\* NextflowMonitor.start(): the reader thread and the update loop run side by
\* side; the input stream yields up to MaxLines lines and then ends, cleanly
\* or with an error, and the user may interrupt the update loop at any point.
StreamLines ==
    {ProcessLine("A", <<"t1">>, RUNNING, None, <<"note">>, FALSE), CompleteLine}

StoreIdle ==
    UNCHANGED <<replica, pc, cursor, active_lanes, reserved_lanes, freed,
                last_call>>

\* start(), lines 62-74: the flag is set, the live display and the reader
\* thread are started and the update loop is entered.
Start ==
    /\ threads.loop = "init"
    /\ monitor' = [monitor EXCEPT !.is_running = TRUE, !.live = "started"]
    /\ threads' = [threads EXCEPT !.reader = "next", !.loop = "while"]
    /\ UNCHANGED <<graph, journal>>
    /\ StoreIdle

\* _read_input, line 87: the stream yields its next line.
ReaderNext ==
    \E line \in StreamLines :
        /\ threads.reader = "next"
        /\ Len(journal.read_log) < MaxLines
        /\ threads' = [threads EXCEPT !.reader = "check", !.line = line]
        /\ journal' = [journal EXCEPT !.read_log = Append(@, line)]
        /\ UNCHANGED <<graph, monitor>>
        /\ StoreIdle

\* Line 87: the stream is at its end, the for loop is over.
ReaderEnd ==
    /\ threads.reader = "next"
    /\ threads' = [threads EXCEPT !.reader = "end"]
    /\ UNCHANGED <<graph, monitor, journal>>
    /\ StoreIdle

\* Variant of ReaderError: on an error the reader also clears the flag.
ReaderError_stops ==
    /\ threads.reader = "next"
    /\ monitor' = [monitor EXCEPT !.output_queue = Append(@, EndSignal),
                                  !.is_running = FALSE]
    /\ threads' = [threads EXCEPT !.reader = "end"]
    /\ UNCHANGED <<graph, journal>>
    /\ StoreIdle

\* Lines 98-100: reading or echoing raised, the end signal is put.
ReaderError ==
    /\ threads.reader = "next"
    /\ monitor' = [monitor EXCEPT !.output_queue = Append(@, EndSignal)]
    /\ threads' = [threads EXCEPT !.reader = "end"]
    /\ UNCHANGED <<graph, journal>>
    /\ StoreIdle

\* Lines 88-89: if not self.is_running: break
ReaderCheck ==
    /\ threads.reader = "check"
    /\ threads' = [threads EXCEPT !.reader =
                      IF monitor.is_running THEN "put" ELSE "end"]
    /\ UNCHANGED <<graph, monitor, journal>>
    /\ StoreIdle

\* Line 92: self.output_queue.put(line)
ReaderPut ==
    /\ threads.reader = "put"
    /\ monitor' = [monitor EXCEPT !.output_queue = Append(@, threads.line)]
    /\ threads' = [threads EXCEPT !.reader = "next"]
    /\ UNCHANGED <<graph, journal>>
    /\ StoreIdle

\* _update_loop, lines 108-110: while self.is_running
LoopWhile ==
    /\ threads.loop = "while"
    /\ threads' = IF monitor.is_running
                  THEN [threads EXCEPT !.loop = "batch", !.lines_processed = 0]
                  ELSE [threads EXCEPT !.loop = "returned"]
    /\ journal' = [journal EXCEPT !.renders = 0, !.passes = 0]
    /\ UNCHANGED <<graph, monitor>>
    /\ StoreIdle

\* Variant of BatchOpen: the batch has no limit.
BatchOpen_always(lines_processed) == TRUE

\* Line 112: while lines_processed < 100
BatchOpen(lines_processed) == lines_processed < BatchLimit

\* Variant of Dequeue: the line put last is taken.
Dequeue_last(queue) ==
    [line |-> queue[Len(queue)], rest |-> SubSeq(queue, 1, Len(queue) - 1)]

\* Queue.get: the line put first is taken.
Dequeue(queue) == [line |-> Head(queue), rest |-> Tail(queue)]

\* Lines 112-123: a line is taken from the queue and processed.
BatchLine ==
    /\ threads.loop = "batch"
    /\ BatchOpen(threads.lines_processed)
    /\ monitor.output_queue # <<>>
    /\ Dequeue(monitor.output_queue).line # EndSignal
    /\ LET d == Dequeue(monitor.output_queue)
           r == process_line(graph, monitor, d.line)
       IN  /\ graph' = r.graph
           /\ monitor' = [r.monitor EXCEPT !.output_queue = d.rest]
           /\ threads' = [threads EXCEPT
                 !.lines_processed = @ + 1,
                 !.pipeline_complete = (@ \/ r.complete)]
           /\ journal' = [journal EXCEPT
                 !.applied_log = Append(@, d.line),
                 !.returned = r.complete,
                 !.drawn_since_complete = IF r.complete THEN FALSE ELSE @]
    /\ StoreIdle

\* Lines 115-117: the end signal is taken from the queue.
BatchEndSignal ==
    /\ threads.loop = "batch"
    /\ BatchOpen(threads.lines_processed)
    /\ monitor.output_queue # <<>>
    /\ Dequeue(monitor.output_queue).line = EndSignal
    /\ monitor' = [monitor EXCEPT
          !.is_running = FALSE,
          !.output_queue = Dequeue(monitor.output_queue).rest]
    /\ threads' = [threads EXCEPT !.loop = "render"]
    /\ journal' = [journal EXCEPT !.end_taken = TRUE]
    /\ UNCHANGED graph
    /\ StoreIdle

\* Lines 113, 124-125: the queue stayed empty for the timeout.
BatchEmpty ==
    /\ threads.loop = "batch"
    /\ BatchOpen(threads.lines_processed)
    /\ monitor.output_queue = <<>>
    /\ threads' = [threads EXCEPT !.loop = "render"]
    /\ UNCHANGED <<graph, monitor, journal>>
    /\ StoreIdle

\* Line 112: the batch is full.
BatchFull ==
    /\ threads.loop = "batch"
    /\ ~BatchOpen(threads.lines_processed)
    /\ threads' = [threads EXCEPT !.loop = "render"]
    /\ UNCHANGED <<graph, monitor, journal>>
    /\ StoreIdle

Statuses(g) == [n \in DOMAIN g.nodes |-> g.nodes[n].status]

\* Lines 128-132 with the interval elapsed: SubwayLiveRenderer.update() draws
\* the store after the layout pass of render_to_lines (the animation frame it
\* advances first has no part in the loop and is followed in SpecBlink).
RenderDue ==
    /\ threads.loop = "render"
    /\ graph' = IF monitor.live = "none" THEN graph ELSE render_to_lines(graph)
    /\ threads' = [threads EXCEPT !.loop = "exit"]
    /\ journal' = IF monitor.live = "none" THEN journal
                  ELSE [journal EXCEPT
                      !.renders = @ + 1,
                      !.passes = IF graph' # graph THEN @ + 1 ELSE @,
                      !.shown = Statuses(graph),
                      !.drawn_since_complete = threads.pipeline_complete]
    /\ UNCHANGED monitor
    /\ StoreIdle

\* Lines 128-129 with the interval not yet elapsed.
RenderSkip ==
    /\ threads.loop = "render"
    /\ threads' = [threads EXCEPT !.loop = "exit"]
    /\ UNCHANGED <<graph, monitor, journal>>
    /\ StoreIdle

\* Lines 135-141: leave after the completion once the queue is empty, else
\* sleep and go round.
ExitCheck ==
    /\ threads.loop = "exit"
    /\ threads' = [threads EXCEPT !.loop =
          IF threads.pipeline_complete /\ monitor.output_queue = <<>>
          THEN "final" ELSE "while"]
    /\ UNCHANGED <<graph, monitor, journal>>
    /\ StoreIdle

\* Lines 136-138: time.sleep(1); self.is_running = False; break
FinalSleep ==
    /\ threads.loop = "final"
    /\ monitor' = [monitor EXCEPT !.is_running = FALSE]
    /\ threads' = [threads EXCEPT !.loop = "returned"]
    /\ UNCHANGED <<graph, journal>>
    /\ StoreIdle

\* start(), lines 73-76: _update_loop has returned and so does start();
\* nothing is called after it (monitor_nextflow_stdout, cli.main).
StartReturn ==
    /\ threads.loop = "returned"
    /\ threads' = [threads EXCEPT !.loop = "exited"]
    /\ UNCHANGED <<graph, monitor, journal>>
    /\ StoreIdle

\* Lines 75-82: KeyboardInterrupt in the update loop, stop() is called.
Interrupt ==
    /\ threads.loop \in {"while", "batch", "render", "exit", "final"}
    /\ monitor' = [monitor EXCEPT !.is_running = FALSE, !.live = "stopped"]
    /\ threads' = [threads EXCEPT !.loop = "stopped"]
    /\ UNCHANGED <<graph, journal>>
    /\ StoreIdle

Reader ==
    \/ ReaderNext
    \/ ReaderEnd
    \/ ReaderError
    \/ ReaderCheck
    \/ ReaderPut

UpdateLoop ==
    \/ LoopWhile
    \/ BatchLine
    \/ BatchEndSignal
    \/ BatchEmpty
    \/ BatchFull
    \/ RenderDue
    \/ RenderSkip
    \/ ExitCheck
    \/ FinalSleep
    \/ StartReturn

NextMonitor ==
    \/ Start
    \/ Reader
    \/ UpdateLoop
    \/ Interrupt

SpecMonitor == Init /\ [][NextMonitor]_vars

\* SpecMonitor with both threads scheduled: the main thread goes on with
\* start() and the update loop, the reader with a line it holds.  Nothing is
\* assumed of the stream (when it yields, ends or fails) nor of the user.
SpecMonitorFair ==
    /\ SpecMonitor
    /\ WF_vars(Start)
    /\ WF_vars(UpdateLoop)
    /\ WF_vars(ReaderCheck \/ ReaderPut)

\* ------------------------------------------------------------- properties
NoDuplicates(seq) == \A i, j \in 1..Len(seq) : seq[i] = seq[j] => i = j

IsPrefix(a, b) == Len(a) <= Len(b) /\ \A k \in 1..Len(a) : a[k] = b[k]

Lanes(g) == [n \in DOMAIN g.nodes |-> g.nodes[n].lane]

Edges(g) ==
    [n \in DOMAIN g.nodes |->
        [children |-> g.nodes[n].children, parents |-> g.nodes[n].parents]]

\* C4: update_process on a name that is already in the store changes no
\* node's lane, no edge and no arrival position and leaves the layout flag as
\* it was; on a laid-out store the next assign_lanes changes nothing.
C4_UpdateKeepsLayout ==
    [][(last_call'.op = "update_process" /\ last_call'.known) =>
        /\ Lanes(graph') = Lanes(graph)
        /\ Edges(graph') = Edges(graph)
        /\ graph'.execution_order = graph.execution_order
        /\ graph'.lanes_assigned = graph.lanes_assigned
        /\ graph.lanes_assigned => assign_lanes(graph') = graph']_vars

\* A laid-out store with a lane other than 0 whose last call was an
\* update_process of a known name that made a node Completed.
C4_Witness ==
    /\ last_call = [op |-> "update_process", known |-> TRUE]
    /\ graph.lanes_assigned
    /\ \E n \in Known(graph) : graph.nodes[n].lane # 0
    /\ \E n \in Known(graph) : graph.nodes[n].status = COMPLETED
    /\ \E n \in Known(graph) : graph.nodes[n].parents # <<>>

\* C6: parent/child links are symmetric (B is in A.children iff A is in
\* B.parents) and neither list holds a name twice.
C6_SymmetricLinks ==
    /\ \A a, b \in Known(graph) :
          Contains(graph.nodes[a].children, b)
              <=> Contains(graph.nodes[b].parents, a)
    /\ \A a \in Known(graph) :
          /\ NoDuplicates(graph.nodes[a].children)
          /\ NoDuplicates(graph.nodes[a].parents)
          /\ Range(graph.nodes[a].children) \subseteq Known(graph)
          /\ Range(graph.nodes[a].parents) \subseteq Known(graph)

\* The last call was add_dependency on an edge the store already had.
C6_Witness ==
    /\ last_call = [op |-> "add_dependency", known |-> TRUE]
    /\ \E a, b \in Known(graph) :
          a # b /\ Contains(graph.nodes[a].children, b)

\* C7: under add_process, update_process and add_dependency (every call but
\* clear) execution_order only grows by appending: its earlier value is a
\* prefix of its later value.
C7_ArrivalOrderAppendOnly ==
    [][last_call'.op # "clear" =>
        IsPrefix(graph.execution_order, graph'.execution_order)]_vars

\* add_dependency has just created a node behind an earlier one.
C7_Witness ==
    /\ last_call = [op |-> "add_dependency", known |-> FALSE]
    /\ Len(graph.execution_order) >= 2
    /\ graph.nodes[graph.execution_order[Len(graph.execution_order)]].parents
          # <<>>

\* C8: execution_order contains no name twice and its set of names equals
\* the key set of nodes.
C8_ArrivalOrderMatchesNodes ==
    /\ NoDuplicates(graph.execution_order)
    /\ Range(graph.execution_order) = DOMAIN graph.nodes

\* add_process or update_process has just been called on a known name.
C8_Witness ==
    /\ last_call.op \in {"add_process", "update_process"}
    /\ last_call.known
    /\ Len(graph.execution_order) >= 2

\* C23: a repeated add_dependency(parent, child) changes nothing in the store
\* but the layout flag, which it sets to stale: nodes, arrival order and both
\* adjacency lists stay as they were.
C23_RepeatedLinkOnlyStales ==
    [][(last_call'.op = "add_dependency" /\ last_call'.known) =>
        graph' = [graph EXCEPT !.lanes_assigned = FALSE]]_vars

\* The last call linked an edge again in a store that had been laid out (a
\* lane other than 0 is left) and where a node has two parents.
C23_Witness ==
    /\ last_call = [op |-> "add_dependency", known |-> TRUE]
    /\ ~graph.lanes_assigned
    /\ \E n \in Known(graph) : graph.nodes[n].lane # 0
    /\ \E n \in Known(graph) : Len(graph.nodes[n].parents) = 2

\* C24: update_process of a known name without a duration (an annotation)
\* leaves the duration (the annotation) of the node as it was; the status is
\* overwritten and nothing else in the store changes.
C24_UpdateKeepsUnprovided ==
    [][(last_call'.op = "update_process" /\ last_call'.known) =>
        LET name == last_call'.name
            old == graph.nodes[name]
            new == graph'.nodes[name]
        IN  /\ new.status = last_call'.status
            /\ new.duration = IF last_call'.duration = None THEN old.duration
                               ELSE last_call'.duration
            /\ new.annotation = IF last_call'.annotation = None
                                 THEN old.annotation
                                 ELSE last_call'.annotation
            /\ graph' = [graph EXCEPT !.nodes[name].status = new.status,
                                      !.nodes[name].duration = new.duration,
                                      !.nodes[name].annotation = new.annotation]
       ]_vars

\* The last call was an update_process of a known name with neither a
\* duration nor an annotation, and the node has both from earlier calls.
C24_Witness ==
    /\ last_call.op = "update_process"
    /\ last_call.known
    /\ last_call.duration = None
    /\ last_call.annotation = None
    /\ graph.nodes[last_call.name].duration # None
    /\ graph.nodes[last_call.name].annotation # None
    /\ graph.nodes[last_call.name].status = COMPLETED

\* The names a call add_dependency(parent, child) creates, in the order it
\* creates them.
Created(g, parent, child) ==
    LET first == IF parent \in Known(g) THEN <<>> ELSE <<parent>>
        second == IF child \in Known(g) \/ child = parent THEN <<>>
                  ELSE <<child>>
    IN  first \o second

\* C27: a store call on an unknown name creates it instead of failing:
\* update_process of an unseen name appends the name to the arrival order as
\* a node with the given status and no links, and add_dependency appends the
\* unseen ones of its two names, the parent first, as Pending nodes, then
\* links them; no other name appears and no known node is lost.
C27_UnknownNamesMaterialised ==
    [][/\ \A name \in NameInputs(graph, MaxCreateNodes) \ Known(graph) :
           \A status \in StatusInputs :
               (/\ last_call'.op = "update_process"
                /\ graph' = update_process(graph, name, status, None, None))
               => /\ graph'.execution_order =
                         Append(graph.execution_order, name)
                  /\ graph'.nodes[name] = ProcessNode(name, status)
                  /\ \A n \in Known(graph) : graph'.nodes[n] = graph.nodes[n]
       /\ \A parent \in NameInputs(graph, MaxCreateNodes) :
           \A child \in ChildInputs(graph, parent, MaxCreateNodes) :
               (/\ last_call'.op = "add_dependency"
                /\ graph' = add_dependency(graph, parent, child))
               => LET created == Created(graph, parent, child)
                  IN  /\ graph'.execution_order =
                             graph.execution_order \o created
                      /\ Known(graph') = Known(graph) \cup {parent, child}
                      /\ \A n \in Range(created) :
                             graph'.nodes[n].status = PENDING
                      /\ HasEdge(graph', parent, child)
      ]_vars

\* The last call linked two names in a store that holds nothing else: both
\* are Pending and the parent arrived before the child.
C27_Witness ==
    /\ last_call = [op |-> "add_dependency", known |-> FALSE]
    /\ Len(graph.execution_order) = 2
    /\ LET parent == graph.execution_order[1]
           child == graph.execution_order[2]
       IN  /\ graph.nodes[parent].status = PENDING
           /\ graph.nodes[child].status = PENDING
           /\ graph.nodes[parent].children = <<child>>
           /\ graph.nodes[child].parents = <<parent>>
           /\ graph.nodes[parent].parents = <<>>

\* C34: after update_process(name, status, duration, annotation) with a
\* duration and an annotation provided, the node called name has that status,
\* that duration and that annotation, whether the call found the node or
\* created it.
C34_UpdateSetsAllFields ==
    (/\ last_call.op = "update_process"
     /\ last_call.duration # None
     /\ last_call.annotation # None) =>
        /\ last_call.name \in Known(graph)
        /\ graph.nodes[last_call.name].status = last_call.status
        /\ graph.nodes[last_call.name].duration = last_call.duration
        /\ graph.nodes[last_call.name].annotation = last_call.annotation

\* ------------------------------------------------------------- layout properties
\* Arrival index (1-based) of a name of the store.
Arrival(g, n) == CHOOSE k \in 1..Len(g.execution_order) : g.execution_order[k] = n

\* The loop iteration that processes execution_order[cursor] is being taken.
Iterating == pc = "loop" /\ cursor <= Len(graph.execution_order) /\ cursor' = cursor + 1

Current == graph.execution_order[cursor]

\* lane is the least of the lanes the parents of n hold in store g.
IsMinParentLane(g, n, lane) ==
    /\ \E p \in Range(g.nodes[n].parents) : g.nodes[p].lane = lane
    /\ \A p \in Range(g.nodes[n].parents) : lane <= g.nodes[p].lane

\* Every edge of the store goes from an earlier to a later arrival: the
\* acyclic input the allocator is meant for.
Forward(g) ==
    \A n \in Known(g) : \A p \in Range(g.nodes[n].parents) :
        Arrival(g, p) < Arrival(g, n)

\* C2 as stated, on acyclic stores: every node with two or more parents gets
\* the minimum of the lanes its parents hold at the moment it is processed.
C2_MergeTakesMinParentLane ==
    [][(/\ Forward(graph)
        /\ Iterating
        /\ Len(graph.nodes[Current].parents) >= 2) =>
        IsMinParentLane(graph, Current, graph'.nodes[Current].lane)]_vars

\* C2 amended: every node with two or more parents and no reservation when it
\* is processed gets the minimum of the lanes its parents hold at that moment
\* (on every store, acyclic or not).
C2_UnreservedMergeTakesMinParentLane ==
    [][(/\ Iterating
        /\ Len(graph.nodes[Current].parents) >= 2
        /\ Current \notin DOMAIN reserved_lanes) =>
        IsMinParentLane(graph, Current, graph'.nodes[Current].lane)]_vars

\* A merge node has just been processed whose parents hold different lanes,
\* arrived before it and have no other child (so nothing was reserved for it).
C2_Witness ==
    /\ pc = "loop"
    /\ cursor > 1
    /\ LET m == graph.execution_order[cursor - 1]
           ps == Range(graph.nodes[m].parents)
       IN  /\ Len(graph.nodes[m].parents) >= 2
           /\ \A p \in ps : Arrival(graph, p) < cursor - 1
                            /\ graph.nodes[p].children = <<m>>
           /\ \E p, q \in ps : graph.nodes[p].lane # graph.nodes[q].lane
           /\ IsMinParentLane(graph, m, graph.nodes[m].lane)

\* The child of n that is earliest in arrival order.
FirstChild(g, n) ==
    CHOOSE c \in Range(g.nodes[n].children) :
        \A d \in Range(g.nodes[n].children) : Arrival(g, c) <= Arrival(g, d)

LaidOut == pc = "idle" /\ graph.lanes_assigned

RECURSIVE LinkAll(_, _, _)
LinkAll(g, parents, name) ==
    IF parents = <<>> THEN add_process(g, name, PENDING)
    ELSE add_dependency(LinkAll(g, SubSeq(parents, 1, Len(parents) - 1), name),
                        parents[Len(parents)], name)

NewName(g) == NameList[Len(g.execution_order) + 1]

\* C5, on acyclic stores: after a layout pass, adding a new node at the end of
\* the arrival order with edges from existing nodes to it and running the pass
\* again leaves the lane of every node that already existed unchanged.
C5_LanesStableUnderGrowth ==
    (LaidOut /\ Forward(graph)) =>
        \A ps \in SUBSET Known(graph) :
            LET parents == SelectSeq(graph.execution_order, LAMBDA x : x \in ps)
                grown == assign_lanes(LinkAll(graph, parents, NewName(graph)))
            IN  \A n \in Known(graph) :
                    grown.nodes[n].lane = graph.nodes[n].lane

\* C9: in a layout pass that has not yet removed a lane from the active set,
\* the lanes given to root nodes never decrease along arrival order.
Processed(k) == last_call.op = "assign_lanes" /\ k < cursor

IsRoot(g, n) == g.nodes[n].parents = <<>>

C9_RootLanesNonDecreasing ==
    (last_call.op = "assign_lanes" /\ ~freed) =>
        \A i, j \in 1..Len(graph.execution_order) :
            (/\ i < j
             /\ Processed(j)
             /\ IsRoot(graph, graph.execution_order[i])
             /\ IsRoot(graph, graph.execution_order[j])) =>
                graph.nodes[graph.execution_order[i]].lane
                    <= graph.nodes[graph.execution_order[j]].lane

\* Three roots have been processed, a non-root between them, nothing freed.
C9_Witness ==
    /\ last_call.op = "assign_lanes"
    /\ ~freed
    /\ \E i, j, k \in 1..Len(graph.execution_order) :
          /\ i < j /\ j < k /\ Processed(k)
          /\ IsRoot(graph, graph.execution_order[i])
          /\ ~IsRoot(graph, graph.execution_order[j])
          /\ IsRoot(graph, graph.execution_order[k])
          /\ graph.nodes[graph.execution_order[i]].lane
                < graph.nodes[graph.execution_order[k]].lane

\* One root followed by its k >= 2 children, each with that parent only and
\* no children.
IsStar(g) ==
    /\ Len(g.execution_order) >= 3
    /\ LET root == g.execution_order[1]
       IN  /\ g.nodes[root].parents = <<>>
           /\ Range(g.nodes[root].children) = Known(g) \ {root}
           /\ \A c \in Known(g) \ {root} :
                 g.nodes[c].parents = <<root>> /\ g.nodes[c].children = <<>>

\* C10: for one root followed by its children c1..ck (k >= 2) in arrival
\* order, a layout pass gives the root and c1 lane 0 and ci lane i-1.
C10_StarLanes ==
    (LaidOut /\ IsStar(graph)) =>
        /\ graph.nodes[graph.execution_order[1]].lane = 0
        /\ graph.nodes[graph.execution_order[2]].lane = 0
        /\ \A i \in 2..(Len(graph.execution_order) - 1) :
              graph.nodes[graph.execution_order[i + 1]].lane = i - 1

\* A laid-out star with three children, linked in another order than they
\* arrived.
C10_Witness ==
    /\ LaidOut
    /\ IsStar(graph)
    /\ Len(graph.execution_order) >= 4
    /\ graph.nodes[graph.execution_order[1]].children
          # SubSeq(graph.execution_order, 2, Len(graph.execution_order))

\* The node m has exactly two parents, which arrived before position k and
\* hold lane 0 and lane 1.
MergesLanes01(g, m, k) ==
    /\ Len(g.nodes[m].parents) = 2
    /\ \E b, c \in Range(g.nodes[m].parents) :
          /\ Arrival(g, b) < k /\ g.nodes[b].lane = 0
          /\ Arrival(g, c) < k /\ g.nodes[c].lane = 1

\* The parent of m that holds lane 1.
LaneOneParent(g, m) ==
    CHOOSE c \in Range(g.nodes[m].parents) : g.nodes[c].lane = 1

\* No child of n arrives after position k.
NoLaterChild(g, n, k) ==
    \A c \in Range(g.nodes[n].children) : Arrival(g, c) <= k

Previous == graph.execution_order[cursor - 1]

\* C11 as stated, on acyclic stores: a node M whose two parents B and C hold
\* lane 0 and lane 1 gets lane 0; lane 1 leaves the active lanes if C has no
\* child arriving after M, and a root arriving directly after M then gets
\* lane 1.
C11_MergeFreesLaneOne ==
    [][(Forward(graph) /\ Iterating) =>
        /\ MergesLanes01(graph, Current, cursor) =>
              /\ graph'.nodes[Current].lane = 0
              /\ NoLaterChild(graph, LaneOneParent(graph, Current), cursor) =>
                    1 \notin DOMAIN active_lanes'
        /\ (/\ cursor > 1
            /\ MergesLanes01(graph, Previous, cursor - 1)
            /\ NoLaterChild(graph, LaneOneParent(graph, Previous), cursor - 1)
            /\ IsRoot(graph, Current)) =>
              graph'.nodes[Current].lane = 1]_vars

\* C11 amended (on every store, acyclic or not): a node M with no reserved
\* lane whose two parents B and C arrived before it and hold lane 0 and lane 1
\* gets lane 0; lane 1 leaves the active lanes if the node occupying it has no
\* child arriving after M, and a root arriving directly after M then gets
\* lane 1.
C11_UnreservedMergeFreesLaneOne ==
    [][Iterating =>
        /\ (/\ MergesLanes01(graph, Current, cursor)
            /\ Current \notin DOMAIN reserved_lanes) =>
              /\ graph'.nodes[Current].lane = 0
              /\ (1 \in DOMAIN active_lanes =>
                    NoLaterChild(graph, active_lanes[1], cursor)) =>
                    1 \notin DOMAIN active_lanes'
        /\ (/\ cursor > 1
            /\ MergesLanes01(graph, Previous, cursor - 1)
            /\ graph.nodes[Previous].lane = 0
            /\ 1 \notin DOMAIN active_lanes
            /\ IsRoot(graph, Current)) =>
              graph'.nodes[Current].lane = 1]_vars

\* A root on lane 1 has just been processed, directly after a node on lane 0
\* that merged lane 0 and lane 1 and whose lane-1 parent has no later child.
C11_Witness ==
    /\ pc = "loop"
    /\ cursor > 2
    /\ LET m == graph.execution_order[cursor - 2]
           r == graph.execution_order[cursor - 1]
       IN  /\ MergesLanes01(graph, m, cursor - 2)
           /\ NoLaterChild(graph, LaneOneParent(graph, m), cursor - 2)
           /\ graph.nodes[m].lane = 0
           /\ IsRoot(graph, r)
           /\ graph.nodes[r].lane = 1

\* The lanes the parents of n hold.
ParentLaneSet(g, n) == {g.nodes[p].lane : p \in Range(g.nodes[n].parents)}

\* C30 as stated, on acyclic stores: when a node with two or more parents is
\* processed, each lane that a parent holds, that is active and that is not
\* the lane the node gets leaves the active lanes exactly when that parent has
\* no child arriving after the node.
C30_MergeFreesDoneParentLanes ==
    [][(/\ Forward(graph)
        /\ Iterating
        /\ Len(graph.nodes[Current].parents) >= 2) =>
        \A p \in Range(graph.nodes[Current].parents) :
            LET lane == graph.nodes[p].lane
            IN  (lane # graph'.nodes[Current].lane
                 /\ lane \in DOMAIN active_lanes) =>
                    (lane \notin DOMAIN active_lanes'
                        <=> NoLaterChild(graph, p, cursor))]_vars

\* C30 amended (on every store, acyclic or not): when a node with two or more
\* parents and no reserved lane is processed, each active lane that a parent
\* holds and that is not the lane the node gets leaves the active lanes
\* exactly when the node occupying that lane has no child arriving after the
\* node; every other active lane stays active.
C30_UnreservedMergeFreesDoneLanes ==
    [][(/\ Iterating
        /\ Len(graph.nodes[Current].parents) >= 2
        /\ Current \notin DOMAIN reserved_lanes) =>
        \A lane \in DOMAIN active_lanes \ {graph'.nodes[Current].lane} :
            lane \notin DOMAIN active_lanes'
                <=> /\ lane \in ParentLaneSet(graph, Current)
                    /\ NoLaterChild(graph, active_lanes[lane], cursor)]_vars

\* A node with three parents on the lanes 0, 1 and 2, none of which has
\* another child, has just been processed: it holds lane 0 and the lanes 1
\* and 2 have left the active lanes.
C30_Witness ==
    /\ pc = "loop"
    /\ cursor > 1
    /\ Len(graph.nodes[Previous].parents) = 3
    /\ ParentLaneSet(graph, Previous) = {0, 1, 2}
    /\ graph.nodes[Previous].lane = 0
    /\ DOMAIN active_lanes = {0}
    /\ freed

\* In the running pass every reservation is for a node the loop has not
\* reached, and a pass that has ended has left none.
ReservationsPending ==
    /\ pc = "loop" =>
           \A c \in DOMAIN reserved_lanes : Arrival(graph, c) >= cursor
    /\ LaidOut => reserved_lanes = EmptyMap

\* C31 as stated, on every store: every reservation of a layout pass is for a
\* child that the pass has not yet processed, it is deleted when that child is
\* processed, and none is left when the pass ends.
C31_ReservationsConsumed == ReservationsPending

\* C31 amended: on a store whose edges all go from an earlier to a later
\* arrival, every reservation of a layout pass is for a child that the pass
\* has not yet processed, it is deleted when that child is processed, and none
\* is left when the pass ends.
C31_ForwardReservationsConsumed == Forward(graph) => ReservationsPending

\* A pass has ended on an acyclic store in which a node has three children on
\* three lanes: two reservations were made and consumed.
C31_Witness ==
    /\ LaidOut
    /\ Forward(graph)
    /\ reserved_lanes = EmptyMap
    /\ \E n \in Known(graph) :
          /\ Len(graph.nodes[n].children) = 3
          /\ Cardinality({graph.nodes[c].lane :
                             c \in Range(graph.nodes[n].children)}) = 3

\* The reservation map after lanes are reserved, one after the other, for the
\* children of others: each gets the lowest lane that is neither active nor
\* reserved for another child.
RECURSIVE StatedReservations(_, _, _)
StatedReservations(active, reserved, others) ==
    IF others = <<>> THEN reserved
    ELSE LET child == Head(others)
             taken == {reserved[c] : c \in DOMAIN reserved \ {child}}
             lane == FirstFreeLane(DOMAIN active \cup taken)
         IN  StatedReservations(active, Put(reserved, child, lane),
                                Tail(others))

\* C32: when a node with more than one child is processed, each child but
\* the first (in arrival order) is given, in turn, the lowest lane that is
\* neither active nor reserved for another child; and at all times no two
\* children hold the same lane in the reservation map.
C32_ReservesLowestFreeLane ==
    /\ [](\A c, d \in DOMAIN reserved_lanes :
             c # d => reserved_lanes[c] # reserved_lanes[d])
    /\ [][(Iterating /\ Len(graph.nodes[Current].children) > 1) =>
             reserved_lanes' =
                 StatedReservations(
                     active_lanes',
                     [c \in DOMAIN reserved_lanes \ {Current} |->
                         reserved_lanes[c]],
                     Tail(sorted_children(graph.execution_order,
                                          graph.nodes[Current].children)))
         ]_vars

\* The store is one chain added in order: each node but the first has the
\* node before it as its only parent, each but the last the node after it as
\* its only child.
IsChain(g) ==
    LET order == g.execution_order
    IN  /\ Len(order) >= 2
        /\ \A k \in 1..Len(order) :
              /\ g.nodes[order[k]].parents =
                     IF k = 1 THEN <<>> ELSE <<order[k - 1]>>
              /\ g.nodes[order[k]].children =
                     IF k = Len(order) THEN <<>> ELSE <<order[k + 1]>>

\* C33: a node with exactly one parent and no reservation gets, when it is
\* processed, the lane its parent holds at that moment and becomes the
\* occupant of that lane; and after a layout pass over a single chain added in
\* order every node has lane 0.
C33_SingleParentInheritsLane ==
    /\ [][(/\ Iterating
            /\ Len(graph.nodes[Current].parents) = 1
            /\ Current \notin DOMAIN reserved_lanes) =>
            LET lane == graph.nodes[graph.nodes[Current].parents[1]].lane
            IN  /\ graph'.nodes[Current].lane = lane
                /\ lane \in DOMAIN active_lanes'
                /\ active_lanes'[lane] = Current]_vars
    /\ []((LaidOut /\ IsChain(graph)) =>
             \A n \in Known(graph) : graph.nodes[n].lane = 0)

\* A node has just been processed that is the only child of its only parent,
\* which arrived before it and is not on lane 0: it holds that lane.
C33_Witness ==
    /\ pc = "loop"
    /\ cursor > 1
    /\ Len(graph.nodes[Previous].parents) = 1
    /\ LET parent == graph.nodes[Previous].parents[1]
       IN  /\ Arrival(graph, parent) < cursor - 1
           /\ graph.nodes[parent].children = <<Previous>>
           /\ graph.nodes[parent].lane # 0
           /\ graph.nodes[Previous].lane = graph.nodes[parent].lane
           /\ active_lanes[graph.nodes[Previous].lane] = Previous

\* C37: when a node is processed, the lane it gets is not one that is held
\* in reserve for another node that the pass has still to process.
C37_ReservedLaneKept ==
    [][Iterating =>
          \A c \in DOMAIN reserved_lanes :
              (/\ c # Current
               /\ Arrival(graph, c) > cursor) =>
                  graph'.nodes[Current].lane # reserved_lanes[c]]_vars

\* C39: after a layout pass every node's lane is at least 0 and smaller than
\* the number of nodes of the store.
C39_LanesBelowNodeCount ==
    LaidOut =>
        \A n \in Known(graph) :
            /\ 0 <= graph.nodes[n].lane
            /\ graph.nodes[n].lane < Cardinality(Known(graph))

\* C39 amended: after a layout pass over a store in which every parent
\* precedes its child in arrival order, every node's lane is at least 0 and
\* smaller than the number of nodes of the store.
C39_ForwardLanesBelowNodeCount ==
    (LaidOut /\ Forward(graph)) =>
        \A n \in Known(graph) :
            /\ 0 <= graph.nodes[n].lane
            /\ graph.nodes[n].lane < Cardinality(Known(graph))

\* A store of three nodes with a split has been laid out, every edge going
\* forward: a reserved lane is in use and the highest lane is 1.
C39_Witness ==
    /\ LaidOut
    /\ Forward(graph)
    /\ Cardinality(Known(graph)) = 3
    /\ \E n \in Known(graph) : Len(graph.nodes[n].children) = 2
    /\ \E n \in Known(graph) : graph.nodes[n].lane = 1

\* An edge of the store goes back in arrival order or from a node to itself.
HasCycleEdge(g) ==
    \E n \in Known(g) : \E p \in Range(g.nodes[n].parents) :
        Arrival(g, n) <= Arrival(g, p)

\* C12: every assign_lanes pass that has been entered returns with the layout
\* flag set, on every store, cyclic or not.
C12_AssignLanesTerminates == (pc = "loop") ~> LaidOut

\* A pass has returned on a store whose edges form a cycle of two nodes
\* (a -> b, b -> a).
C12_Witness ==
    /\ LaidOut
    /\ \E a, b \in Known(graph) :
          a # b /\ HasEdge(graph, a, b) /\ HasEdge(graph, b, a)

\* ------------------------------------------------------------- repeated passes
\* A full layout pass over the store as it is, whatever its layout flag says.
FullPass(g) == assign_lanes([g EXCEPT !.lanes_assigned = FALSE])

\* C25: running the layout pass again with no store change in between, or
\* re-running it in full after a repeated link of an existing edge has made
\* the layout stale, gives every node the lane it had.
C25_RepeatedPassSameLanes ==
    graph.lanes_assigned =>
        /\ Lanes(assign_lanes(graph)) = Lanes(graph)
        /\ \A parent, child \in Known(graph) :
               HasEdge(graph, parent, child) =>
                   LET stale == add_dependency(graph, parent, child)
                   IN  /\ ~stale.lanes_assigned
                       /\ Lanes(assign_lanes(stale)) = Lanes(graph)

\* The pass has just been run again on a laid-out store, in which an edge goes
\* back in arrival order and a node is outside lane 0.
C25_Witness ==
    /\ last_call = [op |-> "assign_lanes", known |-> TRUE]
    /\ graph.lanes_assigned
    /\ \E n \in Known(graph) : graph.nodes[n].lane # 0
    /\ \E n \in Known(graph) : \E q \in Range(graph.nodes[n].parents) :
          Arrival(graph, n) < Arrival(graph, q)

\* C26: whenever the layout flag says the lanes are assigned, the lane of
\* every node is the one a full pass over the current store gives it; the
\* lanes a render draws are those of a full pass over the current nodes and
\* edges.
C26_AssignedLanesAreFresh ==
    /\ graph.lanes_assigned => Lanes(graph) = Lanes(FullPass(graph))
    /\ Lanes(render_to_lines(graph)) = Lanes(FullPass(graph))

\* A store that was laid out again after it had grown: the flag says
\* assigned, a node is outside lane 0 and a node has two parents.
C26_Witness ==
    /\ graph.lanes_assigned
    /\ last_call = [op |-> "assign_lanes", known |-> FALSE]
    /\ \E n \in Known(graph) : graph.nodes[n].lane # 0
    /\ \E n \in Known(graph) : Len(graph.nodes[n].parents) = 2

\* ------------------------------------------------------------- monitor properties
\* _process_line has just been called (Applied) and has returned True.
Applied == journal'.applied_log # journal.applied_log

\* C13: a call of _process_line that finds a workflow-complete signal sets
\* every Pending or Running node to Completed, leaves every other node's status
\* as it was, and changes no edge, arrival position, lane or layout flag.
C13_CompleteForcesCompleted ==
    [][(Applied /\ journal'.returned) =>
        /\ graph'.execution_order = graph.execution_order
        /\ Known(graph') = Known(graph)
        /\ \A n \in Known(graph) :
              graph'.nodes[n].status =
                  IF graph.nodes[n].status \in {PENDING, RUNNING}
                  THEN COMPLETED ELSE graph.nodes[n].status
        /\ Edges(graph') = Edges(graph)
        /\ Lanes(graph') = Lanes(graph)
        /\ graph'.lanes_assigned = graph.lanes_assigned]_vars

\* The signal has just been processed on a laid-out store with an edge: a node
\* last reported Running is Completed and a Failed node is still Failed.
C13_Witness ==
    /\ journal.applied_log # <<>>
    /\ journal.returned
    /\ graph.lanes_assigned
    /\ \E n, f \in Known(graph) :
          /\ <<n, <<"t1">>>> \in DOMAIN monitor.seen_processes
          /\ monitor.seen_processes[<<n, <<"t1">>>>].status = RUNNING
          /\ graph.nodes[n].status = COMPLETED
          /\ graph.nodes[f].status = FAILED
          /\ graph.nodes[f].parents # <<>>

\* The edges of a store, as pairs <<parent, child>>: the ones a children list
\* or a parents list holds.
EdgePairs(g) ==
    {<<p, c>> \in Known(g) \X Known(g) :
        \/ c \in Range(g.nodes[p].children)
        \/ p \in Range(g.nodes[c].parents)}

\* C38: every edge a call of _process_line adds goes from a node that was in
\* the store before the call to the node the call has created, which is the
\* last of the arrival order; and in every store the monitor builds each
\* parent precedes its child in arrival order, so that no edge goes from a
\* node to itself and there is no cycle.
C38_InferredEdgesGoForward ==
    /\ [][Applied =>
            /\ \A e \in EdgePairs(graph) : e \in EdgePairs(graph')
            /\ \A e \in EdgePairs(graph') \ EdgePairs(graph) :
                  /\ e[1] \in Known(graph)
                  /\ e[2] \notin Known(graph)
                  /\ e[2] = graph'.execution_order[Len(graph'.execution_order)]
         ]_vars
    /\ [](\A e \in EdgePairs(graph) :
             /\ e[1] # e[2]
             /\ Arrival(graph, e[1]) < Arrival(graph, e[2]))

\* Three lines have been applied: a process of a sub-workflow, a second one
\* whose prefix has the same normalised key, linked to the first, and a
\* top-level process linked to the open tail of the sub-workflow.
C38_Witness ==
    /\ Len(journal.applied_log) = 3
    /\ graph.execution_order = <<"W:C", "w:D", "A">>
    /\ EdgePairs(graph) = {<<"W:C", "w:D">>, <<"w:D", "A">>}

Unfinished(status) == status \in {PENDING, RUNNING}

\* The update loop has ended by itself (not by an interrupt).
LoopReturned == threads.loop \in {"returned", "exited"}

\* C14: once the update loop has processed a workflow-complete signal, every
\* render issued after it shows no node in Pending or Running status.
C14_NoUnfinishedShownAfterComplete ==
    (threads.pipeline_complete /\ journal.drawn_since_complete) =>
        \A n \in DOMAIN journal.shown : ~Unfinished(journal.shown[n])

\* C15: when the update loop ends after a workflow-complete signal was
\* processed, a render of the store has been issued since the signal.
C15_RenderAfterCompleteBeforeStop ==
    (LoopReturned /\ threads.pipeline_complete) => journal.drawn_since_complete

\* C16: when the update loop ends after taking the end signal from the queue,
\* no node of the store is left in Pending or Running status.
C16_EndSignalDrains ==
    (LoopReturned /\ journal.end_taken) =>
        \A n \in Known(graph) : ~Unfinished(graph.nodes[n].status)

\* C17: once the reader has reached the end of its input, with or without an
\* error, is_running eventually becomes false.
C17_StreamEndStopsLoop == (threads.reader = "end") ~> ~monitor.is_running

\* C18: when monitoring has ended, by the update loop returning or by an
\* interrupt, renderer.stop() has been called on the live display.
C18_DisplayReleased ==
    threads.loop \in {"exited", "stopped"} => monitor.live = "stopped"

\* C19: an iteration of the update loop applies at most BatchLimit lines and
\* issues at most one render with at most one layout pass, and an iteration
\* that is taking lines reaches its render step (unless interrupted), whether
\* the queue is empty or keeps being refilled.
C19_BoundedBatchOneRender ==
    /\ [](/\ threads.lines_processed <= BatchLimit
          /\ journal.renders <= 1
          /\ journal.passes <= journal.renders)
    /\ (threads.loop = "batch") ~> (threads.loop \in {"render", "stopped"})

\* An iteration has applied a full batch and rendered once, with a layout
\* pass, while lines are still waiting in the queue.
C19_Witness ==
    /\ threads.loop = "exit"
    /\ threads.lines_processed = BatchLimit
    /\ journal.renders = 1
    /\ journal.passes = 1
    /\ monitor.output_queue # <<>>

\* C20: the lines applied to the store are, in order, the first lines the
\* reader read from the input stream: each once, none before an earlier one.
C20_AppliedInReadOrder == IsPrefix(journal.applied_log, journal.read_log)

\* Two different lines have been applied, the second one put on the queue
\* after the first had been applied, and a third is waiting.
C20_Witness ==
    /\ Len(journal.applied_log) = 2
    /\ journal.applied_log[1] # journal.applied_log[2]
    /\ Len(monitor.output_queue) = 1
    /\ threads.lines_processed = 1

\* parser.seen_processes, the state of the parser.
ParserState(m) == m.seen_processes

\* The state of the dependency inference.
InferenceState(m) ==
    <<m.last_process, m.last_top_level_process, m.workflow_last_processes,
      m.open_workflow_tails>>

\* What _read_input may use: its position and its line, the stream (the lines
\* it has yielded), the flag and the queue.
ReaderView ==
    [reader |-> threads.reader, line |-> threads.line,
     read_log |-> journal.read_log,
     is_running |-> monitor.is_running, output_queue |-> monitor.output_queue]

\* The steps of _read_input as a relation on ReaderView alone.
ReaderSuccessors(v) ==
    CASE v.reader = "next" ->
             {[v EXCEPT !.reader = "check", !.line = line,
                        !.read_log = Append(@, line)] :
                  line \in {l \in StreamLines : Len(v.read_log) < MaxLines}}
             \cup {[v EXCEPT !.reader = "end"]}
             \cup {[v EXCEPT !.reader = "end",
                             !.output_queue = Append(@, EndSignal)]}
      [] v.reader = "check" ->
             {[v EXCEPT !.reader = IF v.is_running THEN "put" ELSE "end"]}
      [] v.reader = "put" ->
             {[v EXCEPT !.reader = "next",
                        !.output_queue = Append(@, v.line)]}
      [] OTHER -> {}

\* What only the update loop holds: its position and its locals.
LoopState ==
    <<threads.loop, threads.lines_processed, threads.pipeline_complete>>

\* C28: a step of the reader thread depends on and changes nothing but its
\* own position and line, the stream, the queue (which it appends to) and the
\* flag (which it only reads): whatever the graph, the parser state and the
\* inference state are, it can take exactly the steps its view allows, and it
\* leaves them and the flag unchanged; every change of the graph, the parser
\* state or the inference state is a step of the update loop, and no step of
\* the main thread changes the reader's line or the stream.
C28_ReaderSharesQueueAndFlagOnly ==
    /\ [](\A w \in ReaderSuccessors(ReaderView) :
             ENABLED (Reader /\ ReaderView' = w))
    /\ [][/\ Reader =>
               /\ ReaderView' \in ReaderSuccessors(ReaderView)
               /\ graph' = graph
               /\ ParserState(monitor') = ParserState(monitor)
               /\ InferenceState(monitor') = InferenceState(monitor)
               /\ monitor'.is_running = monitor.is_running
               /\ monitor'.live = monitor.live
               /\ LoopState' = LoopState
          /\ (\/ graph' # graph
              \/ ParserState(monitor') # ParserState(monitor)
              \/ InferenceState(monitor') # InferenceState(monitor))
                 => UpdateLoop
          /\ ~Reader =>
               /\ threads'.line = threads.line
               /\ journal'.read_log = journal.read_log
               /\ threads'.reader = threads.reader \/ Start
         ]_vars

\* The reader has put a line on the queue and holds the next one while the
\* update loop, in a batch, has a store with a node and a parser that has
\* seen a process.
C28_Witness ==
    /\ threads.reader = "check"
    /\ threads.loop = "batch"
    /\ monitor.output_queue # <<>>
    /\ Known(graph) # {}
    /\ ParserState(monitor) # EmptyMap
    /\ InferenceState(monitor)[1] # None

\* The reader has raised: it has put the end signal, which is on the queue or
\* has been taken from it.
ReaderRaised == journal.end_taken \/ Contains(monitor.output_queue, EndSignal)

\* The number of end signals on a queue.
EndSignals(queue) == Cardinality({k \in 1..Len(queue) : queue[k] = EndSignal})

\* C29: a reader that raises puts one end signal and no more, and when the
\* update loop has ended by itself after the reader raised, every line put on
\* the queue before the end signal has been applied: none is left on the
\* queue in front of it.
C29_ErrorDrainsThenStops ==
    /\ EndSignals(monitor.output_queue) + (IF journal.end_taken THEN 1 ELSE 0)
           <= 1
    /\ (LoopReturned /\ ReaderRaised) =>
           \A k \in 1..Len(monitor.output_queue) :
               monitor.output_queue[k] = EndSignal => k = 1

\* ------------------------------------------------------------- blink properties
BrightStyle == "bright_blue bold"

\* C35 as stated: after k calls of SubwayLiveRenderer.update the frame counter
\* is k, and the Running dots of the panel rendered last are bright exactly
\* when floor(k / 3) is even.
C35_FrameCountsUpdates ==
    /\ monitor.frame = journal.updates
    /\ journal.style # None =>
           (journal.style[1] = BrightStyle
               <=> (journal.updates \div 3) % 2 = 0)

\* C35 amended: after k calls of update made on a display that start() has
\* created (a call before start() does nothing) the frame counter is k, and
\* the Running dots of the panel rendered last are bright exactly when
\* floor(k / 3) is even.
C35_FrameCountsLiveUpdates ==
    /\ monitor.frame = journal.live_updates
    /\ journal.style # None =>
           (journal.style[1] = BrightStyle
               <=> (journal.live_updates \div 3) % 2 = 0)

\* The display has been updated six times with a Running process: the dots
\* have been dim for three frames and are bright again.
C35_Witness ==
    /\ monitor.live = "started"
    /\ journal.live_updates = 6
    /\ monitor.frame = 6
    /\ journal.style = <<BrightStyle>>

\* ------------------------------------------------------------- render properties
Drawn == journal.grid # None

\* The rendering returned its lines.
Returned == Drawn /\ ~journal.grid[1].raised

\* Row of the k-th process (k from 1) of the arrival order.
NodeRow(k) == (k - 1) * 2

\* C21: rendering the vertical grid never raises for a store built by
\* add_process, update_process and add_dependency and laid out; every node has
\* its marker in the column of its lane, on its own row.
C21_RenderNeverRaises ==
    Drawn =>
        /\ ~journal.grid[1].raised
        /\ \A k \in 1..Len(graph.execution_order) :
               LET node == graph.nodes[graph.execution_order[k]]
               IN  journal.grid[1].grid[NodeRow(k)][col_to_x(node.lane)]
                       = DotChar(round, node.status)

\* C22: in a rendered grid, for every lane and every two consecutive node rows
\* of that lane, every row strictly between them holds a vertical stroke in
\* the column of the lane.
C22_LaneStrokesUnbroken ==
    Returned =>
        \A j, k \in 1..Len(graph.execution_order) :
            LET order == graph.execution_order
                lane == graph.nodes[order[j]].lane
            IN  (/\ j < k
                 /\ graph.nodes[order[k]].lane = lane
                 /\ \A i \in (j + 1)..(k - 1) : graph.nodes[order[i]].lane # lane)
                => \A row \in (NodeRow(j) + 1)..(NodeRow(k) - 1) :
                       journal.grid[1].grid[row][col_to_x(lane)] = thin.VERTICAL

\* A grid was returned in which a lane skips the row of a node of another
\* lane.
C22_Witness ==
    /\ Returned
    /\ \E j, k \in 1..Len(graph.execution_order) :
           LET order == graph.execution_order
               lane == graph.nodes[order[j]].lane
           IN  /\ j + 1 < k
               /\ graph.nodes[order[k]].lane = lane
               /\ \A i \in (j + 1)..(k - 1) : graph.nodes[order[i]].lane # lane

\* The glyphs a connector may bear: the ones that bridge a lane into a
\* horizontal run, and the corners, squared or rounded.
BridgeGlyphs == {thin.SPLIT_RIGHT, thin.SPLIT_LEFT, thin.MERGE_DOWN}

CornerGlyphs ==
    {chars[c] : chars \in {thin, round},
                c \in {"CORNER_RD", "CORNER_RU", "CORNER_LD", "CORNER_LU"}}

\* The lanes of the children of node n.
ChildLaneSet(g, n) == {g.nodes[c].lane : c \in Range(g.nodes[n].children)}

\* The grid of the store with nothing drawn but the split below node n, as
\* lines 146-150 of _render_vertical_grid call draw_split for it.
SplitGrid(g, n) ==
    LET processes == get_ordered_processes(g)
        gr == GridRenderer(MaxLane(g.nodes, processes) + 1,
                           Len(processes) * 2 - 1)
    IN  draw_split(gr, NodeRow(Arrival(g, n)) + 1, g.nodes[n].lane,
                   ParentLanes(g.nodes, g.nodes[n].children))

\* C36: for a node whose children lie in two or more lanes, the connector row
\* of the split holds a bridge glyph in the column of the node's lane, a
\* corner glyph in the column of every other lane of a child, and no blank
\* between the node's column and any of these corners, whether the children
\* lie in two lanes or in more.
C36_SplitBridgeAndCorners ==
    LaidOut =>
        \A n \in Known(graph) :
            (/\ Cardinality(ChildLaneSet(graph, n)) >= 2
             /\ Arrival(graph, n) < Len(graph.execution_order)) =>
                LET split == SplitGrid(graph, n)
                    cells == split.grid[NodeRow(Arrival(graph, n)) + 1]
                    from_x == col_to_x(graph.nodes[n].lane)
                IN  /\ ~split.raised
                    /\ cells[from_x] \in BridgeGlyphs
                    /\ \A lane \in ChildLaneSet(graph, n) \ {graph.nodes[n].lane} :
                           /\ cells[col_to_x(lane)] \in CornerGlyphs
                           /\ \A x \in (Min2(from_x, col_to_x(lane)) + 1)
                                           ..(Max2(from_x, col_to_x(lane)) - 1) :
                                  cells[x] # " "

\* ------------------------------------------------------------- replay property
\* C1: the same calls replayed on two fresh stores give every node the same
\* lane in both once each store has run assign_lanes.
C1_ReplayGivesSameLanes ==
    (graph.lanes_assigned /\ replica.lanes_assigned) =>
        /\ graph.execution_order = replica.execution_order
        /\ Lanes(graph) = Lanes(replica)

\* Both stores are laid out, with a node outside lane 0 and an edge that goes
\* back in arrival order.
C1_Witness ==
    /\ graph.lanes_assigned
    /\ replica.lanes_assigned
    /\ \E n \in Known(graph) : graph.nodes[n].lane # 0
    /\ \E n \in Known(graph) : \E p \in Range(graph.nodes[n].parents) :
          Arrival(graph, n) < Arrival(graph, p)

====
